---- MODULE Spec2Model ----
(***************************************************************************)
(* Model of bird2topo: the token pool (src/tokens.rs), the connection      *)
(* handler and the update loop (src/main.rs), the projection (src/         *)
(* gather.rs) and the parsers (src/parser/mod.rs, src/parser/block.rs).    *)
(*                                                                         *)
(* Connections are numbered 1..MaxConns; connection c owns the ws::Sender  *)
(* c, so a payload of the token pool is the number of its connection.      *)
(* The Handler callbacks of different connections are interleaved          *)
(* statement by statement, the pool's Mutex being the only thing that      *)
(* serialises them.                                                        *)
(***************************************************************************)
EXTENDS Integers, Sequences, FiniteSets, TLC

\* ---------------------------------------------------------------- bounds
\* number of connections the listener accepts during a run
MaxConns == 3
\* u16::MAX scaled down (the real value is 65535 == 2^16 - 1)
U16_MAX == 3

\* number of those connections that open while the update loop polls birdc
MaxViewers == 2

Conns == 1 .. MaxConns
Viewers == {c \in Conns : c <= MaxViewers}
NoConn == 0
NoToken == -1
None == "None"

VARIABLES
    tks,        \* TokensInner.data: the BitSet of free token values
    mutex,      \* owner of the Mutex around tks (NoConn: unlocked)
    evc,        \* the unbounded channel s_tkinf -> r_tkinf
    handler,    \* per connection: the Handler enum variant
    hpc,        \* per connection: position inside on_open / on_close
    tokval,     \* per connection: local tokval, then TokenGuard.tokval
    panicked,   \* a Handler callback panicked (unwinds ws::listen in main)
    lpc,        \* update loop: position
    prev_hash,  \* update loop: Option<u64>
    senders,    \* update loop: BTreeMap<TokenValue, ws::Sender>
    timeout,    \* update loop: "after" (10 s) or "never"
    birdc,      \* what birdc gave, per protocol, in the latest loop body
    result,     \* what gather returned in the latest loop body
    dist,       \* sender the latest loop body called broadcast on
    pinged,     \* senders the latest loop body called ping on
    acqd,       \* an Acquire was received since the latest loop body
    owed,       \* an Acquire was received and no loop body with a payload
                \* and a registered sender has run since
    got,        \* senders of open connections broadcast was called on
    pbase,      \* gather: topo, the Topology the texts are merged into
    ptext,      \* parse_topology: the text of the call whose result is not
                \* yet taken (<<>>: none)
    pres,       \* parse_topology: what the latest call returned
    pn,         \* number of texts handed to parse_topology in this cycle
    arg,        \* a pure function under check: the inputs of the call
    ret         \* a pure function under check: what the call returned

tokvars == <<tks, mutex, evc, handler, hpc, tokval, panicked>>
loopvars == <<lpc, prev_hash, senders, timeout, birdc, result, dist, pinged, acqd, owed, got>>
callvars == <<arg, ret>>
parsevars == <<pbase, ptext, pres, pn, arg, ret>>
vars == <<tks, mutex, evc, handler, hpc, tokval, panicked,
          lpc, prev_hash, senders, timeout, birdc, result, dist, pinged, acqd, owed, got,
          pbase, ptext, pres, pn, arg, ret>>

\* ------------------------------------------------------------ tokens.rs
\* TokensNew with the range ending at u16::MAX
TokensNew_UpToMax(u16max) == 0 .. (u16max - 1)

\* Tokens::new: (0..(u16::MAX - 1) as TokenValue).collect()
TokensNew(u16max) == 0 .. ((u16max - 1) - 1)

AllTokens == TokensNew(U16_MAX)

\* BitSetFirst taking the largest member
BitSetFirst_Last(bs) == CHOOSE v \in bs : \A w \in bs : w <= v

\* BitSet::iter().next(): the smallest member
BitSetFirst(bs) == CHOOSE v \in bs : \A w \in bs : v <= w

Acquire(t, s) == [type |-> "Acquire", t |-> t, s |-> s]
Release(t) == [type |-> "Release", t |-> t, s |-> NoConn]

Running == ~panicked

\* LockFree of a lock that excludes nobody
LockFree_NoExclusion == TRUE

\* Mutex::lock() as taken by try_acquire and by drop
LockFree == mutex = NoConn

\* ws::listen factory closure: a new connection gets Handler::PreOpen
Connect(c) ==
    /\ Running
    /\ handler[c] = "NoHandler"
    /\ handler' = [handler EXCEPT ![c] = "PreOpen"]
    /\ UNCHANGED <<tks, mutex, evc, hpc, tokval, panicked>>
    /\ UNCHANGED loopvars
    /\ UNCHANGED parsevars

\* Handler::on_open up to the call of try_acquire
OnOpen(c) ==
    /\ Running
    /\ hpc[c] = "idle"
    /\ handler[c] = "PreOpen"
    /\ handler' = [handler EXCEPT ![c] = "PreRunning"]
    /\ \E addr_ok \in BOOLEAN :
          hpc' = [hpc EXCEPT ![c] = IF addr_ok THEN "lock" ELSE "idle"]
    /\ UNCHANGED <<tks, mutex, evc, tokval, panicked>>
    /\ UNCHANGED loopvars
    /\ UNCHANGED parsevars

\* try_acquire: self.0.data.lock()
AcquireLock(c) ==
    /\ Running
    /\ hpc[c] = "lock"
    /\ LockFree
    /\ mutex' = c
    /\ hpc' = [hpc EXCEPT ![c] = "iter"]
    /\ UNCHANGED <<tks, evc, handler, tokval, panicked>>
    /\ UNCHANGED loopvars
    /\ UNCHANGED parsevars

\* try_acquire: tks.iter().next()
AcquireIter(c) ==
    /\ Running
    /\ hpc[c] = "iter"
    /\ IF tks # {}
          THEN /\ tokval' = [tokval EXCEPT ![c] = BitSetFirst(tks)]
               /\ hpc' = [hpc EXCEPT ![c] = "remove"]
               /\ UNCHANGED mutex
          ELSE /\ hpc' = [hpc EXCEPT ![c] = "err"]
               /\ mutex' = NoConn
               /\ UNCHANGED tokval
    /\ UNCHANGED <<tks, evc, handler, panicked>>
    /\ UNCHANGED loopvars
    /\ UNCHANGED parsevars

\* try_acquire: tks.remove(tokval), end of the lock's scope
AcquireRemove(c) ==
    /\ Running
    /\ hpc[c] = "remove"
    /\ tks' = tks \ {tokval[c]}
    /\ mutex' = IF mutex = c THEN NoConn ELSE mutex
    /\ hpc' = [hpc EXCEPT ![c] = "send"]
    /\ UNCHANGED <<evc, handler, tokval, panicked>>
    /\ UNCHANGED loopvars
    /\ UNCHANGED parsevars

\* try_acquire: evc.send(Acquire(tokval, data)), Ok(TokenGuard);
\* on_open: *self = Handler::Running { tg }
AcquireSend(c) ==
    /\ Running
    /\ hpc[c] = "send"
    /\ evc' = Append(evc, Acquire(tokval[c], c))
    /\ handler' = [handler EXCEPT ![c] = "Running"]
    /\ hpc' = [hpc EXCEPT ![c] = "idle"]
    /\ UNCHANGED <<tks, mutex, tokval, panicked>>
    /\ UNCHANGED loopvars
    /\ UNCHANGED parsevars

\* try_acquire returned Err(data); on_open: .expect("unable to acquire token")
AcquireErr(c) ==
    /\ Running
    /\ hpc[c] = "err"
    /\ panicked' = TRUE
    /\ hpc' = [hpc EXCEPT ![c] = "panic"]
    /\ UNCHANGED <<tks, mutex, evc, handler, tokval>>
    /\ UNCHANGED loopvars
    /\ UNCHANGED parsevars

\* Handler::on_close of a Running handler: mem::replace(self, Closed), drop(tg)
OnClose(c) ==
    /\ Running
    /\ hpc[c] = "idle"
    /\ handler[c] = "Running"
    /\ handler' = [handler EXCEPT ![c] = "Closed"]
    /\ hpc' = [hpc EXCEPT ![c] = "dlock"]
    /\ UNCHANGED <<tks, mutex, evc, tokval, panicked>>
    /\ UNCHANGED loopvars
    /\ UNCHANGED parsevars

\* drop: self.parent.data.lock()
DropLock(c) ==
    /\ Running
    /\ hpc[c] = "dlock"
    /\ LockFree
    /\ mutex' = c
    /\ hpc' = [hpc EXCEPT ![c] = "insert"]
    /\ UNCHANGED <<tks, evc, handler, tokval, panicked>>
    /\ UNCHANGED loopvars
    /\ UNCHANGED parsevars

\* DropInsert forgetting the insert
DropInsert_NoInsert(c) ==
    /\ Running
    /\ hpc[c] = "insert"
    /\ mutex' = IF mutex = c THEN NoConn ELSE mutex
    /\ hpc' = [hpc EXCEPT ![c] = "dsend"]
    /\ UNCHANGED <<tks, evc, handler, tokval, panicked>>
    /\ UNCHANGED loopvars
    /\ UNCHANGED parsevars

\* drop: tks.insert(tv), end of the lock's scope
DropInsert(c) ==
    /\ Running
    /\ hpc[c] = "insert"
    /\ tks' = tks \cup {tokval[c]}
    /\ mutex' = IF mutex = c THEN NoConn ELSE mutex
    /\ hpc' = [hpc EXCEPT ![c] = IF tokval[c] \notin tks THEN "dsend" ELSE "idle"]
    /\ UNCHANGED <<evc, handler, tokval, panicked>>
    /\ UNCHANGED loopvars
    /\ UNCHANGED parsevars

\* drop: if is_success { evc.send(Release(tv)) }
DropSend(c) ==
    /\ Running
    /\ hpc[c] = "dsend"
    /\ evc' = Append(evc, Release(tokval[c]))
    /\ hpc' = [hpc EXCEPT ![c] = "idle"]
    /\ UNCHANGED <<tks, mutex, handler, tokval, panicked>>
    /\ UNCHANGED loopvars
    /\ UNCHANGED parsevars

\* ws::listen calls the Handler callbacks from the one thread it runs on,
\* a callback at a time: on_open and on_close as single steps.
OnOpenCall(c) ==
    /\ Running
    /\ hpc[c] = "idle"
    /\ handler[c] = "PreOpen"
    /\ \E addr_ok \in BOOLEAN :
          IF ~addr_ok
             THEN /\ handler' = [handler EXCEPT ![c] = "PreRunning"]
                  /\ UNCHANGED <<tks, evc, hpc, tokval, panicked>>
          ELSE IF tks # {}
             THEN /\ tokval' = [tokval EXCEPT ![c] = BitSetFirst(tks)]
                  /\ tks' = tks \ {BitSetFirst(tks)}
                  /\ evc' = Append(evc, Acquire(BitSetFirst(tks), c))
                  /\ handler' = [handler EXCEPT ![c] = "Running"]
                  /\ UNCHANGED <<hpc, panicked>>
             ELSE /\ handler' = [handler EXCEPT ![c] = "PreRunning"]
                  /\ hpc' = [hpc EXCEPT ![c] = "panic"]
                  /\ panicked' = TRUE
                  /\ UNCHANGED <<tks, evc, tokval>>
    /\ UNCHANGED mutex
    /\ UNCHANGED loopvars
    /\ UNCHANGED parsevars

\* OnCloseCall forgetting to drop the guard
OnCloseCall_NoDrop(c) ==
    /\ Running
    /\ hpc[c] = "idle"
    /\ handler[c] = "Running"
    /\ handler' = [handler EXCEPT ![c] = "Closed"]
    /\ UNCHANGED <<tks, evc, tokval, mutex, hpc, panicked>>
    /\ UNCHANGED loopvars
    /\ UNCHANGED parsevars

OnCloseCall(c) ==
    /\ Running
    /\ hpc[c] = "idle"
    /\ handler[c] = "Running"
    /\ handler' = [handler EXCEPT ![c] = "Closed"]
    /\ tks' = tks \cup {tokval[c]}
    /\ evc' = IF tokval[c] \notin tks THEN Append(evc, Release(tokval[c])) ELSE evc
    /\ tokval' = [tokval EXCEPT ![c] = NoToken]
    /\ got' = got \ {c}
    /\ UNCHANGED <<mutex, hpc, panicked>>
    /\ UNCHANGED <<lpc, prev_hash, senders, timeout, birdc, result, dist, pinged, acqd, owed>>
    /\ UNCHANGED parsevars

\* Handler::on_open of a handler that is not PreOpen:
\* mem::replace(self, PreRunning), `_ => panic!(..)`; the unwinding drops the
\* replaced value, and with it the guard of a Running handler
OnOpenOther(c) ==
    /\ Running
    /\ hpc[c] = "idle"
    /\ handler[c] \in {"PreRunning", "Running", "Closed"}
    /\ handler' = [handler EXCEPT ![c] = "PreRunning"]
    /\ IF handler[c] = "Running"
          THEN /\ tks' = tks \cup {tokval[c]}
               /\ evc' = IF tokval[c] \notin tks THEN Append(evc, Release(tokval[c]))
                                                ELSE evc
               /\ tokval' = [tokval EXCEPT ![c] = NoToken]
          ELSE UNCHANGED <<tks, evc, tokval>>
    /\ hpc' = [hpc EXCEPT ![c] = "panic"]
    /\ panicked' = TRUE
    /\ UNCHANGED mutex
    /\ UNCHANGED loopvars
    /\ UNCHANGED parsevars

\* Handler::on_close of a handler that is not Running:
\* mem::replace(self, Closed), `else { panic!(..) }`
OnCloseOther(c) ==
    /\ Running
    /\ hpc[c] = "idle"
    /\ handler[c] \in {"PreOpen", "PreRunning", "Closed"}
    /\ handler' = [handler EXCEPT ![c] = "Closed"]
    /\ hpc' = [hpc EXCEPT ![c] = "panic"]
    /\ panicked' = TRUE
    /\ UNCHANGED <<tks, mutex, evc, tokval>>
    /\ UNCHANGED loopvars
    /\ UNCHANGED parsevars

\* ------------------------------------------------------ parser/block.rs
\* A line of text is a sequence of characters.  The whitespace characters
\* are " " and "\t"; a word (a maximal run of other characters) is kept as
\* one element, so "  router R1" is <<" ", " ", "router", " ", "R1">>.
\* A text is the sequence of its lines, as str::lines() yields them.
IsWhitespace(x) == x \in {" ", "\t"}

\* s.starts_with(pfx)
StartsWith(s, pfx) == Len(pfx) <= Len(s) /\ SubSeq(s, 1, Len(pfx)) = pfx

RECURSIVE IndentCount(_, _)
\* get_indent: the while loop counting leading whitespace
IndentCount(s, ibc) ==
    IF ibc < Len(s) /\ IsWhitespace(s[ibc + 1])
       THEN IndentCount(s, ibc + 1)
       ELSE ibc

\* get_indent: s.split_at(ibc)
get_indent(s) ==
    LET ibc == IndentCount(s, 0)
    IN  <<SubSeq(s, 1, ibc), SubSeq(s, ibc + 1, Len(s))>>

RawBlock(indent, head) == [indent |-> indent, head |-> head, subs |-> <<>>]

RECURSIVE RawFinish(_)
\* RawBlock::finish
RawFinish(b) ==
    [head |-> b.head, subs |-> [i \in 1 .. Len(b.subs) |-> RawFinish(b.subs[i])]]

\* Parser::top_indent
top_indent(P) == IF P.stack = <<>> THEN <<>> ELSE P.stack[Len(P.stack)].indent

\* merge_prev losing a block that has no parent left on the stack
merge_prev_Drop(P) ==
    IF P.stack = <<>> THEN P
    ELSE LET n == Len(P.stack)
             old_top == P.stack[n]
             rest == SubSeq(P.stack, 1, n - 1)
         IN  IF rest # <<>>
                THEN [P EXCEPT !.stack =
                        [rest EXCEPT ![n - 1].subs = Append(@, old_top)]]
                ELSE [base |-> P.base, stack |-> rest]

\* Parser::merge_prev
merge_prev(P) ==
    IF P.stack = <<>> THEN P
    ELSE LET n == Len(P.stack)
             old_top == P.stack[n]
             rest == SubSeq(P.stack, 1, n - 1)
         IN  IF rest # <<>>
                THEN [P EXCEPT !.stack =
                        [rest EXCEPT ![n - 1].subs = Append(@, old_top)]]
                ELSE [base |-> Append(P.base, old_top), stack |-> rest]

\* the two closures handed to pop_scope_while: |_| true and
\* |top| !i.indent.starts_with(top.indent)
CondAll == [all |-> TRUE, indent |-> <<>>]
CondDiverges(indent) == [all |-> FALSE, indent |-> indent]
\* CondHolds comparing the lengths of the indentations
CondHolds_ByLength(cond, top) == cond.all \/ Len(cond.indent) < Len(top.indent)
CondHolds(cond, top) == cond.all \/ ~StartsWith(cond.indent, top.indent)

RECURSIVE pop_scope_while(_, _)
\* Parser::pop_scope_while
pop_scope_while(P, cond) ==
    IF P.stack # <<>> /\ CondHolds(cond, P.stack[Len(P.stack)])
       THEN pop_scope_while(merge_prev(P), cond)
       ELSE P

\* Parser::finish
ParserFinish(P) ==
    LET Q == pop_scope_while(P, CondAll)
    IN  [i \in 1 .. Len(Q.base) |-> RawFinish(Q.base[i])]

\* parse_nested_blocks: the body of the for loop, for one non-blank line
ParserStep(P, i) ==
    LET P1 == pop_scope_while(P, CondDiverges(i.indent))
        P2 == IF i.indent = top_indent(P1) THEN merge_prev(P1) ELSE P1
    IN  [P2 EXCEPT !.stack = Append(@, i)]

RECURSIVE ParserRun(_, _, _)
\* parse_nested_blocks: the for loop over lines().map(get_indent).filter(..)
ParserRun(P, s, k) ==
    IF k > Len(s) THEN P
    ELSE LET ih == get_indent(s[k])
         IN  IF ih[2] = <<>>
                THEN ParserRun(P, s, k + 1)
                ELSE ParserRun(ParserStep(P, RawBlock(ih[1], ih[2])), s, k + 1)

parse_nested_blocks(s) ==
    ParserFinish(ParserRun([base |-> <<>>, stack |-> <<>>], s, 1))

\* -------------------------------------------------------- parser/mod.rs
\* The words texts are made of, in the byte order of str's Ord.
Vocab == <<"\t", " ", "0", "0.0.0.0", "0.0.0.1", "1", "10", "255", "256", "5",
           "9", "900", "BIRD", "N1/24", "R1", "R2", "R3", "area", "bogus",
           "distance", "dr", "external", "metric", "metric2", "network",
           "router", "stubnet", "unreachable", "v2.0.8", "xnetwork", "xrouter">>

WordRank(w) ==
    IF \E i \in 1 .. Len(Vocab) : Vocab[i] = w
       THEN CHOOSE i \in 1 .. Len(Vocab) : Vocab[i] = w
       ELSE 0

\* str::parse::<integer>() of one word: its value, -1 when it is no numeral
NumVal(w) ==
    CASE w = "0" -> 0 [] w = "1" -> 1 [] w = "5" -> 5 [] w = "9" -> 9
      [] w = "10" -> 10 [] w = "255" -> 255 [] w = "256" -> 256
      [] w = "900" -> 900 [] OTHER -> -1

U8_MAX == 255
U16_FULL == 65535

\* Result::unwrap_or
UnwrapOr(r, d) == IF r.ok THEN r.val ELSE d

Ok(v) == [ok |-> TRUE, val |-> v]
Err(e) == [ok |-> FALSE, err |-> e]

\* TopologyParseError
UnknownStructure(n) == [kind |-> "UnknownStructure", a |-> n, b |-> 0]
DistanceMismatch(old, new) == [kind |-> "DistanceMismatch", a |-> old, b |-> new]
InvalidDistance == [kind |-> "InvalidDistance", a |-> 0, b |-> 0]
InvalidEntry(e) == [kind |-> e, a |-> 0, b |-> 0]

\* str::parse::<u8>() / str::parse::<u16>() of a string
ParseInt(str, max) ==
    IF Len(str) = 1 /\ NumVal(str[1]) >= 0 /\ NumVal(str[1]) <= max
       THEN Ok(NumVal(str[1]))
       ELSE Err(InvalidDistance)

\* EntryType, in declaration order (the order derive(Ord) uses)
EntryTypes == <<"external", "router", "stubnet", "network", "xnetwork", "xrouter">>
EntryTypeRank(t) == CHOOSE i \in 1 .. Len(EntryTypes) : EntryTypes[i] = t

\* Metric::new
MetricNew(t, v) ==
    LET n == ParseInt(<<v>>, U16_FULL)
    IN  IF ~n.ok THEN Err(InvalidEntry("InvalidMetric"))
        ELSE IF t = "metric" THEN Ok([kind |-> "Internal", v |-> n.val])
        ELSE IF t = "metric2" THEN Ok([kind |-> "External", v |-> n.val])
        ELSE Err(InvalidEntry("UnknownMetric"))

\* str::split_ascii_whitespace
SplitWhitespace(s) == SelectSeq(s, LAMBDA x : ~IsWhitespace(x))

\* Entry::from_str
EntryFromStr(s) ==
    LET parts == SplitWhitespace(s)
    IN  IF Len(parts) # 4 THEN Err(InvalidEntry("InvalidStructure"))
        ELSE IF \A i \in 1 .. Len(EntryTypes) : EntryTypes[i] # parts[1]
                THEN Err(InvalidEntry("InvalidEntryType"))
        ELSE LET m == MetricNew(parts[3], parts[4])
             IN  IF ~m.ok THEN m
                 ELSE Ok([typ |-> parts[1], obj |-> <<parts[2]>>, metric |-> m.val])

RECURSIVE StrLess(_, _)
\* Ord for str
StrLess(a, b) ==
    IF b = <<>> THEN FALSE
    ELSE IF a = <<>> THEN TRUE
    ELSE IF WordRank(a[1]) # WordRank(b[1]) THEN WordRank(a[1]) < WordRank(b[1])
    ELSE StrLess(Tail(a), Tail(b))

\* derive(Ord) for Metric: Internal before External, then the value
MetricLess(m, n) ==
    IF m.kind # n.kind THEN m.kind = "Internal" ELSE m.v < n.v

\* derive(Ord) for Entry: typ, then obj, then metric
EntryLess(e, f) ==
    IF e.typ # f.typ THEN EntryTypeRank(e.typ) < EntryTypeRank(f.typ)
    ELSE IF e.obj # f.obj THEN StrLess(e.obj, f.obj)
    ELSE MetricLess(e.metric, f.metric)

RECURSIVE SortInsert(_, _)
SortInsert(sorted, e) ==
    IF sorted = <<>> THEN <<e>>
    ELSE IF EntryLess(e, Head(sorted)) THEN <<e>> \o sorted
    ELSE <<Head(sorted)>> \o SortInsert(Tail(sorted), e)

RECURSIVE SortEntries(_)
\* rdat.entries.sort()
SortEntries(es) ==
    IF es = <<>> THEN <<>>
    ELSE SortInsert(SortEntries(SubSeq(es, 1, Len(es) - 1)), es[Len(es)])

RECURSIVE Dedup(_)
\* Vec::dedup: drops an element equal to its predecessor
Dedup(es) ==
    IF Len(es) <= 1 THEN es
    ELSE LET r == Dedup(SubSeq(es, 1, Len(es) - 1))
         IN  IF r[Len(r)] = es[Len(es)] THEN r ELSE Append(r, es[Len(es)])

\* the codes DefaultHasher is modelled to give the words of a name
WordCode(w) ==
    CASE w = "R1" -> 41 [] w = "R2" -> 17 [] w = "R3" -> 29
      [] w = "N1/24" -> 23 [] OTHER -> 3 + WordRank(w)

IdSpace == 64

RECURSIVE router2id(_)
\* router2id: DefaultHasher over the bytes of the name
router2id(router) ==
    IF router = <<>> THEN 5
    ELSE (WordCode(router[Len(router)])
            + 7 * router2id(SubSeq(router, 1, Len(router) - 1)) + 29) % IdSpace

\* BTreeMap / HashMap: entry(k).or_insert(v), and insert(k, v)
MapOrInsert(m, k, v) ==
    [x \in DOMAIN m \cup {k} |-> IF x \in DOMAIN m THEN m[x] ELSE v]
MapInsert(m, k, v) ==
    [x \in DOMAIN m \cup {k} |-> IF x = k THEN v ELSE m[x]]
EmptyMap == [x \in {} |-> 0]

\* Topology::new
TopologyNew == [interned |-> EmptyMap, areas |-> EmptyMap]

\* try_eat_pfx, pfx being a keyword followed by one space
try_eat_pfx(s, pfx) ==
    IF StartsWith(s, pfx) THEN Ok(SubSeq(s, Len(pfx) + 1, Len(s))) ELSE Err(None)

\* parse_topology: the intern closure
intern(interned, router) == MapOrInsert(interned, router2id(router), router)

\* RouterEnt naming the new distance first in DistanceMismatch
RouterEnt_Swapped(rdat, ent) ==
    IF ent.subs # <<>> THEN Err(UnknownStructure(3))
    ELSE IF ent.head = <<"unreachable">>
       THEN LET new_distance == 255
            IN  IF rdat.distance # new_distance /\ rdat.distance # 255
                   THEN Err(DistanceMismatch(new_distance, rdat.distance))
                   ELSE Ok([rdat EXCEPT !.distance = new_distance])
    ELSE IF try_eat_pfx(ent.head, <<"distance", " ">>).ok
       THEN LET parsed == ParseInt(try_eat_pfx(ent.head, <<"distance", " ">>).val, U8_MAX)
            IN  IF ~parsed.ok THEN parsed
                ELSE LET new_distance == parsed.val
                     IN  IF rdat.distance # new_distance /\ rdat.distance # 255
                            THEN Err(DistanceMismatch(new_distance, rdat.distance))
                            ELSE Ok([rdat EXCEPT !.distance = new_distance])
    ELSE LET e == EntryFromStr(ent.head)
         IN  IF ~e.ok THEN e
             ELSE Ok([rdat EXCEPT !.entries = Append(@, e.val)])

\* RouterEnt taking a stored 255 for a distance like any other
RouterEnt_NoSentinel(rdat, ent) ==
    IF ent.subs # <<>> THEN Err(UnknownStructure(3))
    ELSE IF ent.head = <<"unreachable">>
       THEN LET new_distance == 255
            IN  IF rdat.distance # new_distance /\ rdat.distance # 255
                   THEN Err(DistanceMismatch(rdat.distance, new_distance))
                   ELSE Ok([rdat EXCEPT !.distance = new_distance])
    ELSE IF try_eat_pfx(ent.head, <<"distance", " ">>).ok
       THEN LET parsed == ParseInt(try_eat_pfx(ent.head, <<"distance", " ">>).val, U8_MAX)
            IN  IF ~parsed.ok THEN parsed
                ELSE LET new_distance == parsed.val
                     IN  IF rdat.distance # new_distance
                            THEN Err(DistanceMismatch(rdat.distance, new_distance))
                            ELSE Ok([rdat EXCEPT !.distance = new_distance])
    ELSE LET e == EntryFromStr(ent.head)
         IN  IF ~e.ok THEN e
             ELSE Ok([rdat EXCEPT !.entries = Append(@, e.val)])

\* parse_topology: the body of `for ent in xsubs` of a router block
RouterEnt(rdat, ent) ==
    IF ent.subs # <<>> THEN Err(UnknownStructure(3))
    ELSE IF ent.head = <<"unreachable">>
       THEN LET new_distance == 255
            IN  IF rdat.distance # new_distance /\ rdat.distance # 255
                   THEN Err(DistanceMismatch(rdat.distance, new_distance))
                   ELSE Ok([rdat EXCEPT !.distance = new_distance])
    ELSE IF try_eat_pfx(ent.head, <<"distance", " ">>).ok
       THEN LET parsed == ParseInt(try_eat_pfx(ent.head, <<"distance", " ">>).val, U8_MAX)
            IN  IF ~parsed.ok THEN parsed
                ELSE LET new_distance == parsed.val
                     IN  IF rdat.distance # new_distance /\ rdat.distance # 255
                            THEN Err(DistanceMismatch(rdat.distance, new_distance))
                            ELSE Ok([rdat EXCEPT !.distance = new_distance])
    ELSE LET e == EntryFromStr(ent.head)
         IN  IF ~e.ok THEN e
             ELSE Ok([rdat EXCEPT !.entries = Append(@, e.val)])

RECURSIVE RouterEnts(_, _, _)
\* parse_topology: `for ent in xsubs` of a router block
RouterEnts(rdat, xsubs, k) ==
    IF k > Len(xsubs) THEN Ok(rdat)
    ELSE LET next(r) == IF ~r.ok THEN r ELSE RouterEnts(r.val, xsubs, k + 1)
         IN  next(RouterEnt(rdat, xsubs[k]))

\* parse_topology: the body of `for ent in xsubs` of a network block;
\* st is the pair of `interned` and `ndat`
NetworkEnt(st, ent) ==
    LET ndat == st.ndat
    IN  IF ent.subs # <<>> THEN Err(UnknownStructure(3))
        ELSE IF ent.head = <<"unreachable">>
           THEN LET new_distance == 255
                IN  IF ndat.distance # new_distance /\ ndat.distance # 255
                       THEN Err(DistanceMismatch(ndat.distance, new_distance))
                       ELSE Ok([st EXCEPT !.ndat.distance = new_distance])
        ELSE IF try_eat_pfx(ent.head, <<"distance", " ">>).ok
           THEN LET parsed == ParseInt(try_eat_pfx(ent.head, <<"distance", " ">>).val, U8_MAX)
                IN  IF ~parsed.ok THEN parsed
                    ELSE LET new_distance == parsed.val
                         IN  IF ndat.distance # new_distance /\ ndat.distance # 255
                                THEN Err(DistanceMismatch(ndat.distance, new_distance))
                                ELSE Ok([st EXCEPT !.ndat.distance = new_distance])
        ELSE IF try_eat_pfx(ent.head, <<"dr", " ">>).ok
           THEN LET dr == try_eat_pfx(ent.head, <<"dr", " ">>).val
                IN  Ok([interned |-> intern(st.interned, dr),
                        ndat |-> [ndat EXCEPT !.dr = router2id(dr)]])
        ELSE IF try_eat_pfx(ent.head, <<"router", " ">>).ok
           THEN LET router == try_eat_pfx(ent.head, <<"router", " ">>).val
                IN  Ok([interned |-> intern(st.interned, router),
                        ndat |-> [ndat EXCEPT !.routers = @ \cup {router2id(router)}]])
        ELSE Ok(st)

RECURSIVE NetworkEnts(_, _, _)
\* parse_topology: `for ent in xsubs` of a network block
NetworkEnts(st, xsubs, k) ==
    IF k > Len(xsubs) THEN Ok(st)
    ELSE LET next(r) == IF ~r.ok THEN r ELSE NetworkEnts(r.val, xsubs, k + 1)
         IN  next(NetworkEnt(st, xsubs[k]))

RouterDataNew == [distance |-> 255, entries |-> <<>>]
NetworkDataNew == [distance |-> 255, dr |-> 0, routers |-> {}]
AreaDataNew == [routers |-> EmptyMap, networks |-> EmptyMap]

\* parse_topology: the body of `for areaelem in &area.subs`
AreaElem(topo, area_name, areaelem) ==
    LET xsubs == areaelem.subs
        areadat == topo.areas[area_name]
        asRouter == try_eat_pfx(areaelem.head, <<"router", " ">>)
        asNetwork == try_eat_pfx(areaelem.head, <<"network", " ">>)
    IN  IF asRouter.ok
           THEN LET rid == router2id(asRouter.val)
                    interned == intern(topo.interned, asRouter.val)
                    routers == MapOrInsert(areadat.routers, rid, RouterDataNew)
                    sorted(rdat) == [rdat EXCEPT !.entries = Dedup(SortEntries(@))]
                    store(r) ==
                        IF ~r.ok THEN r
                        ELSE Ok([interned |-> interned,
                                 areas |-> [topo.areas EXCEPT ![area_name].routers =
                                               MapInsert(routers, rid, sorted(r.val))]])
                IN  store(RouterEnts(routers[rid], xsubs, 1))
        ELSE IF asNetwork.ok
           THEN LET nid == router2id(asNetwork.val)
                    interned == intern(topo.interned, asNetwork.val)
                    networks == MapOrInsert(areadat.networks, nid, NetworkDataNew)
                    store(r) ==
                        IF ~r.ok THEN r
                        ELSE Ok([interned |-> r.val.interned,
                                 areas |-> [topo.areas EXCEPT ![area_name].networks =
                                               MapInsert(networks, nid, r.val.ndat)]])
                IN  store(NetworkEnts([interned |-> interned, ndat |-> networks[nid]],
                                      xsubs, 1))
        ELSE Err(UnknownStructure(2))

RECURSIVE AreaElems(_, _, _, _)
\* parse_topology: `for areaelem in &area.subs`
AreaElems(topo, area_name, subs, k) ==
    IF k > Len(subs) THEN Ok(topo)
    ELSE LET next(r) == IF ~r.ok THEN r ELSE AreaElems(r.val, area_name, subs, k + 1)
         IN  next(AreaElem(topo, area_name, subs[k]))

AREA_PFX == <<"area", " ">>

RECURSIVE Areas(_, _, _)
\* parse_topology: `for area in blocks_`
Areas(topo, blocks, k) ==
    IF k > Len(blocks) THEN Ok(topo)
    ELSE LET area == blocks[k]
         IN  IF ~StartsWith(area.head, AREA_PFX) THEN Err(UnknownStructure(1))
             ELSE LET area_name == SubSeq(area.head, Len(AREA_PFX) + 1, Len(area.head))
                      topo1 == [topo EXCEPT !.areas =
                                   MapOrInsert(@, area_name, AreaDataNew)]
                      next(r) == IF ~r.ok THEN r ELSE Areas(r.val, blocks, k + 1)
                  IN  next(AreaElems(topo1, area_name, area.subs, 1))

\* head.starts_with("BIRD v"): the word BIRD, a space, a word beginning with v
IsBanner(head) ==
    /\ Len(head) >= 3
    /\ head[1] = "BIRD"
    /\ head[2] = " "
    /\ head[3] \in {"v2.0.8"}

parse_topology(base_topo, s) ==
    LET blocks_ == parse_nested_blocks(s)
    IN  IF blocks_ = <<>> \/ ~IsBanner(blocks_[1].head)
           THEN Err(UnknownStructure(0))
           ELSE Areas(base_topo, Tail(blocks_), 1)

\* ------------------------------------------------------------ gather.rs
\* RouterData::is_unreachable, NetworkData::is_unreachable
is_unreachable(d) == d.distance = 255

\* the raw weight of an entry, as neighbors() and conns() compute it (u16)
EntryWeight(e) ==
    IF e.metric.kind = "Internal" THEN e.metric.v
    ELSE (1000 + e.metric.v) % (U16_FULL + 1)

\* `1000 + x` leaves the range of u16
WeightOverflows(e) == e.metric.kind = "External" /\ 1000 + e.metric.v > U16_FULL

\* what the match in neighbors() and conns() gives for an entry: the weight;
\* where `1000 + x` overflows, the wrapped sum or a panic, as the build
\* has overflow checks or not
WeightOutcomes(e) ==
    IF WeightOverflows(e) THEN {Ok(EntryWeight(e)), Err("panic")}
    ELSE {Ok(EntryWeight(e))}

\* RouterData::neighbors
neighbors(rdat) ==
    LET es == SelectSeq(rdat.entries, LAMBDA e : e.typ = "router")
    IN  [i \in 1 .. Len(es) |-> <<es[i].obj, EntryWeight(es[i])>>]

\* RouterData::conns
conns(rdat) ==
    LET es == SelectSeq(rdat.entries, LAMBDA e : e.typ # "router")
    IN  [i \in 1 .. Len(es) |-> <<es[i].obj, EntryWeight(es[i])>>]

\* RouterData::get_details: the distance and the entries, which the map
\* lists per type in the order of `entries`
get_details(rdat) == [distance |-> rdat.distance, entries |-> rdat.entries]

NoDetails == [distance |-> -1, entries |-> <<>>]

Min2(a, b) == IF a <= b THEN a ELSE b
Max2(a, b) == IF a <= b THEN b ELSE a

\* insert_edge keeping the order of its arguments
insert_edge_Directed(id1, id2, w) ==
    [from |-> id1, to |-> id2, length |-> Min2((w \div 100) + 1, 1000)]

\* gather: the insert_edge closure
insert_edge(id1, id2, w) ==
    [from |-> Min2(id1, id2), to |-> Max2(id1, id2),
     length |-> Min2((w \div 100) + 1, 1000)]

\* derive(Ord) for Edge: from, then to, then length
EdgeLess(e, f) ==
    IF e.from # f.from THEN e.from < f.from
    ELSE IF e.to # f.to THEN e.to < f.to
    ELSE e.length < f.length

RECURSIVE SetToSortedSeq(_)
\* the keys of a BTreeMap / the members of a BTreeSet, ascending
SetToSortedSeq(S) ==
    IF S = {} THEN <<>>
    ELSE LET m == CHOOSE x \in S : \A y \in S : x <= y
         IN  <<m>> \o SetToSortedSeq(S \ {m})

RECURSIVE EdgeSortInsert(_, _)
EdgeSortInsert(sorted, e) ==
    IF sorted = <<>> THEN <<e>>
    ELSE IF EdgeLess(e, Head(sorted)) THEN <<e>> \o sorted
    ELSE <<Head(sorted)>> \o EdgeSortInsert(Tail(sorted), e)

RECURSIVE EdgeSort(_)
\* edges.sort()
EdgeSort(es) ==
    IF es = <<>> THEN <<>>
    ELSE EdgeSortInsert(EdgeSort(SubSeq(es, 1, Len(es) - 1)), es[Len(es)])

RECURSIVE Flatten(_)
Flatten(ss) == IF ss = <<>> THEN <<>> ELSE Head(ss) \o Flatten(Tail(ss))

BB_AREA == <<"0.0.0.0">>

\* gather: the edges pushed by the `for (&rid, router)` loop
RouterEdges(bb_area) ==
    LET rids == SetToSortedSeq(DOMAIN bb_area.routers)
        of(rid) ==
            LET ns == neighbors(bb_area.routers[rid])
                cs == conns(bb_area.routers[rid])
            IN  [i \in 1 .. Len(ns) |-> insert_edge(rid, router2id(ns[i][1]), ns[i][2])]
                \o [i \in 1 .. Len(cs) |-> insert_edge(rid, router2id(cs[i][1]), cs[i][2])]
    IN  Flatten([k \in 1 .. Len(rids) |-> of(rids[k])])

\* gather: the edges pushed by the `for (&nid, network)` loop
NetworkEdges(bb_area) ==
    LET nids == SetToSortedSeq(DOMAIN bb_area.networks)
        of(nid) ==
            LET ms == SetToSortedSeq(bb_area.networks[nid].routers)
                         \o <<bb_area.networks[nid].dr>>
            IN  [i \in 1 .. Len(ms) |-> insert_edge(nid, ms[i], 0)]
    IN  Flatten([k \in 1 .. Len(nids) |-> of(nids[k])])

\* gather: the synthetic nodes created by nodes.entry(orid).or_insert_with
\* for the targets of conns(); the first target with a given id gives the label
ConnNodes(bb_area) ==
    LET rids == SetToSortedSeq(DOMAIN bb_area.routers)
        objs == Flatten([k \in 1 .. Len(rids) |->
                    [i \in 1 .. Len(conns(bb_area.routers[rids[k]])) |->
                        conns(bb_area.routers[rids[k]])[i][1]]])
        ids == {router2id(objs[i]) : i \in 1 .. Len(objs)}
        first(id) == objs[CHOOSE i \in 1 .. Len(objs) :
                            /\ router2id(objs[i]) = id
                            /\ \A j \in 1 .. i - 1 : router2id(objs[j]) # id]
    IN  [id \in ids |-> [id |-> id, label |-> first(id), group |-> "network",
                         details |-> NoDetails]]

\* v.0.contains('/'): names of that shape are the prefix words
ContainsSlash(label) == \E i \in 1 .. Len(label) : label[i] \in {"N1/24"}

\* gather: nodes_ after both loops, turned into Node by nodes.extend
InternedNodes(topo) ==
    LET hasBB == BB_AREA \in DOMAIN topo.areas
        isRouter(k) == hasBB /\ k \in DOMAIN topo.areas[BB_AREA].routers
        isNetwork(k) == hasBB /\ k \in DOMAIN topo.areas[BB_AREA].networks
        reach(k) ==
            IF isNetwork(k) THEN ~is_unreachable(topo.areas[BB_AREA].networks[k])
            ELSE IF isRouter(k) THEN ~is_unreachable(topo.areas[BB_AREA].routers[k])
            ELSE FALSE
        details(k) ==
            LET d1 == IF isRouter(k) THEN get_details(topo.areas[BB_AREA].routers[k])
                      ELSE NoDetails
            IN  IF isNetwork(k)
                   THEN [d1 EXCEPT !.distance = topo.areas[BB_AREA].networks[k].distance]
                   ELSE d1
    IN  [k \in DOMAIN topo.interned |->
            [id |-> k, label |-> topo.interned[k],
             group |-> IF ~reach(k) THEN "unreachable"
                       ELSE IF ContainsSlash(topo.interned[k]) THEN "network"
                       ELSE "ytrizja",
             details |-> details(k)]]

\* gather: the HashMap `nodes` after nodes.extend(..)
NodeMap(topo) ==
    LET extra == IF BB_AREA \in DOMAIN topo.areas
                    THEN ConnNodes(topo.areas[BB_AREA]) ELSE EmptyMap
        own == InternedNodes(topo)
    IN  [k \in DOMAIN extra \cup DOMAIN own |->
            IF k \in DOMAIN own THEN own[k] ELSE extra[k]]

\* gather: edges after edges.sort(); edges.dedup()
EdgeList(topo) ==
    IF BB_AREA \in DOMAIN topo.areas
       THEN Dedup(EdgeSort(RouterEdges(topo.areas[BB_AREA])
                             \o NetworkEdges(topo.areas[BB_AREA])))
       ELSE <<>>

\* HashMap::values(): the values in an order the hasher's random keys decide
ValueOrders(m) ==
    LET n == Cardinality(DOMAIN m)
    IN  {[i \in 1 .. n |-> m[f[i]]] :
            f \in {g \in [1 .. n -> DOMAIN m] :
                      \A i, j \in 1 .. n : i # j => g[i] # g[j]}}

\* gather: the payloads it can return for a Topology with areas
Payloads(topo) ==
    {[nodes |-> ns, edges |-> EdgeList(topo)] : ns \in ValueOrders(NodeMap(topo))}

\* what one run of birdc can give: Command::output() fails, the exit status
\* is a failure, stdout is no UTF-8, or stdout is a text
LaunchFailed == [kind |-> "launch_failed", text |-> <<>>]
ExitFailure == [kind |-> "exit_failure", text |-> <<>>]
NonUtf8 == [kind |-> "non_utf8", text |-> <<>>]
Stdout(text) == [kind |-> "stdout", text |-> text]

RECURSIVE Collect(_, _, _)
\* gather: `for i in protos`; String::from_utf8(..).expect(..) panics
Collect(outs, k, tmp) ==
    IF k > Len(outs) THEN Ok(tmp)
    ELSE IF outs[k].kind \in {"launch_failed", "exit_failure"}
            THEN Collect(outs, k + 1, tmp)
    ELSE IF outs[k].kind = "non_utf8" THEN Err("panic")
    ELSE Collect(outs, k + 1, Append(tmp, outs[k].text))

RECURSIVE ParseAll_Skip(_, _, _)
\* ParseAll going on with the next text when one fails to parse
ParseAll_Skip(topo, tmp, k) ==
    IF k > Len(tmp) THEN Ok(topo)
    ELSE ParseAll_Skip(UnwrapOr(parse_topology(topo, tmp[k]), topo), tmp, k + 1)

RECURSIVE ParseAll(_, _, _)
\* gather: `for i in tmp.iter()` folding parse_topology
ParseAll(topo, tmp, k) ==
    IF k > Len(tmp) THEN Ok(topo)
    ELSE LET next(r) == IF ~r.ok THEN r ELSE ParseAll(r.val, tmp, k + 1)
         IN  next(parse_topology(topo, tmp[k]))

\* a backbone router has an entry whose weight overflows in neighbors() or
\* conns()
TopoOverflows(topo) ==
    /\ BB_AREA \in DOMAIN topo.areas
    /\ \E rid \in DOMAIN topo.areas[BB_AREA].routers :
          \E i \in 1 .. Len(topo.areas[BB_AREA].routers[rid].entries) :
              WeightOverflows(topo.areas[BB_AREA].routers[rid].entries[i])

GatherPanic == [kind |-> "panic", dath |-> <<>>]
GatherNone == [kind |-> "None", dath |-> <<>>]
GatherSome(p) == [kind |-> "Some", dath |-> p]

\* gather: every value it can return for the given birdc outcomes
gather(outs) ==
    LET tmp == Collect(outs, 1, <<>>)
    IN  IF ~tmp.ok THEN {GatherPanic}
        ELSE LET project(topo) ==
                     IF ~topo.ok THEN {GatherNone}
                     ELSE IF DOMAIN topo.val.areas = {} THEN {GatherNone}
                     ELSE {GatherSome(p) : p \in Payloads(topo.val)}
                            \cup (IF TopoOverflows(topo.val) THEN {GatherPanic} ELSE {})
             IN  project(ParseAll(TopologyNew, tmp.val, 1))

\* -------------------------------------------------------------- main.rs
OSPF_PROTOS == <<"ytrizja", "ytrizja_v6">>

\* serde_json::to_string: the payload as a sequence of numbers
EntryBytes(e) ==
    <<EntryTypeRank(e.typ)>> \o [i \in 1 .. Len(e.obj) |-> WordRank(e.obj[i])]
      \o <<IF e.metric.kind = "Internal" THEN 1 ELSE 2, e.metric.v>>
NodeBytes(n) ==
    <<n.id>> \o [i \in 1 .. Len(n.label) |-> WordRank(n.label[i])]
      \o <<CASE n.group = "unreachable" -> 1 [] n.group = "network" -> 2 [] OTHER -> 3,
           n.details.distance + 1>>
      \o Flatten([i \in 1 .. Len(n.details.entries) |-> EntryBytes(n.details.entries[i])])
EdgeBytes(e) == <<e.from, e.to, e.length>>
Serialize(p) ==
    Flatten([i \in 1 .. Len(p.edges) |-> EdgeBytes(p.edges[i])]) \o <<0>>
      \o Flatten([i \in 1 .. Len(p.nodes) |-> NodeBytes(p.nodes[i])])

\* the width of the hash, scaled down from 2^64
HASH_SPACE == 4093

RECURSIVE HashBytes(_, _)
HashBytes(bytes, h) ==
    IF bytes = <<>> THEN h
    ELSE HashBytes(Tail(bytes), (h * 31 + Head(bytes) + 7) % HASH_SPACE)

\* DefaultHasher::new(); dath.hash(&mut hasher); hasher.finish()
Hash(dath) == HashBytes(Serialize(dath), 17)

\* --------------------------------------------------------- sample texts
Spaces(n) == [i \in 1 .. n |-> " "]
RECURSIVE Join(_)
Join(words) ==
    IF Len(words) <= 1 THEN words ELSE <<Head(words), " ">> \o Join(Tail(words))
Line(n, words) == Spaces(n) \o Join(words)

Banner == Line(0, <<"BIRD", "v2.0.8">>)
Blank == <<>>

\* the end-to-end example: R1 (distance 1, neighbour R2) and R2 (distance 1)
TextA ==
    <<Banner, Blank,
      Line(0, <<"area", "0.0.0.0">>),
      Line(1, <<"router", "R1">>),
      Line(2, <<"distance", "1">>),
      Line(2, <<"router", "R2", "metric", "10">>),
      Line(1, <<"router", "R2">>),
      Line(2, <<"distance", "1">>)>>

\* the same routers seen by the other instance, R1 at distance 5
TextB ==
    <<Banner, Blank,
      Line(0, <<"area", "0.0.0.0">>),
      Line(1, <<"router", "R1">>),
      Line(2, <<"distance", "5">>)>>

\* no banner
TextBad ==
    <<Line(0, <<"area", "0.0.0.0">>),
      Line(1, <<"router", "R1">>)>>

LoopTexts == {TextA, TextB, TextBad}
LoopOutcomes == {LaunchFailed, ExitFailure, NonUtf8} \cup {Stdout(t) : t \in LoopTexts}

\* --------------------------------------------- texts handed to the parser
\* longest run of attribute lines in a block of a generated text
MaxAttrs == 2
\* number of texts merged into one Topology
MaxMerges == 2

\* the lines below a `router` or `network` line
AttrLines == {<<"unreachable">>, <<"distance", "5">>, <<"distance", "9">>,
              <<"distance", "255">>, <<"router", "R2", "metric", "10">>}
AttrRuns == UNION {[1 .. n -> AttrLines] : n \in 1 .. MaxAttrs}
BlockHeads == {<<"router", "R1">>, <<"network", "N1/24">>}

\* a text is described by its blocks: the head of each and its attribute lines
OneBlock == {<<[head |-> h, attrs |-> a]>> : h \in BlockHeads, a \in AttrRuns}
TwoBlocks ==
    {<<[head |-> h1, attrs |-> <<a1>>], [head |-> h2, attrs |-> <<a2>>]>> :
        h1 \in BlockHeads, h2 \in BlockHeads,
        a1 \in AttrLines \ {<<"router", "R2", "metric", "10">>},
        a2 \in AttrLines \ {<<"router", "R2", "metric", "10">>}}
Descs == OneBlock \cup TwoBlocks

BlockLines(b) ==
    <<Line(1, b.head)>> \o [i \in 1 .. Len(b.attrs) |-> Line(2, b.attrs[i])]
TextOf(desc) ==
    <<Banner, Blank, Line(0, <<"area", "0.0.0.0">>)>>
      \o Flatten([i \in 1 .. Len(desc) |-> BlockLines(desc[i])])

\* gather: parse_topology(topo, i) is called for one more text
ParseMerge ==
    /\ ptext = <<>>
    /\ pn < MaxMerges
    /\ \E d \in Descs :
          /\ ptext' = d
          /\ pres' = parse_topology(pbase, TextOf(d))
    /\ pn' = pn + 1
    /\ UNCHANGED pbase
    /\ UNCHANGED callvars
    /\ UNCHANGED tokvars
    /\ UNCHANGED loopvars

\* gather: topo = match .. { Ok(topo) => topo, .. }
ParseTake ==
    /\ ptext # <<>>
    /\ pres.ok
    /\ pbase' = pres.val
    /\ ptext' = <<>>
    /\ UNCHANGED <<pres, pn>>
    /\ UNCHANGED callvars
    /\ UNCHANGED tokvars
    /\ UNCHANGED loopvars

\* gather: Err(x) => return None, or all texts merged; the next cycle starts
\* from Topology::new()
ParseRestart ==
    /\ pn > 0
    /\ ptext # <<>> => ~pres.ok
    /\ pbase' = TopologyNew
    /\ ptext' = <<>>
    /\ pres' = Ok(TopologyNew)
    /\ pn' = 0
    /\ UNCHANGED callvars
    /\ UNCHANGED tokvars
    /\ UNCHANGED loopvars

\* ------------------------------------ parse_nested_blocks, line by line
\* number of lines of a text
MaxLines == 4

\* the indentations of a line, the words its head is made of (one per line
\* number), and the lines: an indentation and a head, or whitespace only
Indents == {<<>>, <<" ">>, <<" ", " ">>, <<"\t">>, <<" ", "\t">>}
HeadWords == <<"R1", "R2", "R3", "area", "router", "network">>
LineDescs(k) ==
    {[indent |-> i, head |-> <<HeadWords[k]>>] : i \in Indents}
      \cup {[indent |-> i, head |-> <<>>] : i \in {<<>>, <<" ">>}}
LineText(l) == l.indent \o l.head

NewParser == [base |-> <<>>, stack |-> <<>>]
BlockState ==
    IF ret = <<>>
       THEN [P |-> NewParser, failed |-> FALSE, done |-> FALSE, out |-> <<>>]
       ELSE ret

\* parse_nested_blocks: one turn of the for loop, for the line s; `failed`
\* is the assert! after pop_scope_while
LineStep(st, s) ==
    LET indent == get_indent(s)[1]
        head == get_indent(s)[2]
    IN  IF head = <<>> THEN st
        ELSE [st EXCEPT
                !.failed = @ \/ ~StartsWith(indent,
                              top_indent(pop_scope_while(st.P, CondDiverges(indent)))),
                !.P = ParserStep(st.P, RawBlock(indent, head))]

\* s.lines() yields one more line
BlockLine ==
    /\ ~BlockState.done
    /\ Len(arg) < MaxLines
    /\ \E l \in LineDescs(Len(arg) + 1) :
          /\ arg' = Append(arg, l)
          /\ ret' = LineStep(BlockState, LineText(l))
    /\ UNCHANGED <<pbase, ptext, pres, pn>>
    /\ UNCHANGED tokvars
    /\ UNCHANGED loopvars

\* parse_nested_blocks: parser.finish(), with its assert!
BlockFinish ==
    /\ ~BlockState.done
    /\ ret' = [P |-> pop_scope_while(BlockState.P, CondAll),
               failed |-> BlockState.failed
                            \/ pop_scope_while(BlockState.P, CondAll).stack # <<>>,
               done |-> TRUE,
               out |-> ParserFinish(BlockState.P)]
    /\ UNCHANGED arg
    /\ UNCHANGED <<pbase, ptext, pres, pn>>
    /\ UNCHANGED tokvars
    /\ UNCHANGED loopvars

\* the next call
BlockReturn ==
    /\ BlockState.done
    /\ arg' = <<>>
    /\ ret' = <<>>
    /\ UNCHANGED <<pbase, ptext, pres, pn>>
    /\ UNCHANGED tokvars
    /\ UNCHANGED loopvars

\* ----------------------------------------- parse_topology: merged texts
\* the lines below a `router` line and below a `network` line
MergeRouterLines ==
    {<<"unreachable">>, <<"distance", "5">>, <<"distance", "9">>,
     <<"router", "R2", "metric", "10">>, <<"stubnet", "N1/24", "metric", "5">>}
MergeNetworkLines ==
    {<<"unreachable">>, <<"distance", "5">>, <<"dr", "R1">>, <<"router", "R1">>}
OneOrTwo(L) == {<<a>> : a \in L} \cup {<<a, b>> : a \in L, b \in L}

\* texts of one block: router R1 or network N1/24 with one or two lines,
\* router R2 with one line
MergeDescs ==
    {<<[head |-> <<"router", "R1">>, attrs |-> a]>> : a \in OneOrTwo(MergeRouterLines)}
      \cup {<<[head |-> <<"router", "R2">>, attrs |-> <<a>>]>> : a \in MergeRouterLines}
      \cup {<<[head |-> <<"network", "N1/24">>, attrs |-> a]>> :
               a \in OneOrTwo(MergeNetworkLines)}

\* two texts are drawn
MergeStart ==
    /\ arg = <<>>
    /\ \E d1 \in MergeDescs, d2 \in MergeDescs : arg' = <<d1, d2>>
    /\ ret' = <<>>
    /\ UNCHANGED <<pbase, ptext, pres, pn>>
    /\ UNCHANGED tokvars
    /\ UNCHANGED loopvars

\* gather: `for i in tmp.iter()` over the two texts in either order, over
\* each text alone, and over the first text twice
MergeRun ==
    /\ arg # <<>>
    /\ ret = <<>>
    /\ ret' = [fwd |-> ParseAll(TopologyNew, <<TextOf(arg[1]), TextOf(arg[2])>>, 1),
               rev |-> ParseAll(TopologyNew, <<TextOf(arg[2]), TextOf(arg[1])>>, 1),
               once1 |-> ParseAll(TopologyNew, <<TextOf(arg[1])>>, 1),
               once2 |-> ParseAll(TopologyNew, <<TextOf(arg[2])>>, 1),
               twice |-> ParseAll(TopologyNew, <<TextOf(arg[1]), TextOf(arg[1])>>, 1)]
    /\ UNCHANGED arg
    /\ UNCHANGED <<pbase, ptext, pres, pn>>
    /\ UNCHANGED tokvars
    /\ UNCHANGED loopvars

\* the next cycle
MergeDone ==
    /\ ret # <<>>
    /\ arg' = <<>>
    /\ ret' = <<>>
    /\ UNCHANGED <<pbase, ptext, pres, pn>>
    /\ UNCHANGED tokvars
    /\ UNCHANGED loopvars

\* ------------------------------------------------- gather, on one text
\* the lines below `router R1`, `router R2` and `network N1/24`
GatherR1Lines ==
    {<<"distance", "5">>, <<"router", "R2", "metric", "10">>,
     <<"router", "R2", "metric", "900">>, <<"router", "R2", "metric2", "5">>,
     <<"stubnet", "N1/24", "metric", "10">>}
GatherR2Runs ==
    {<<>>, <<<<"router", "R1", "metric", "10">>>>,
     <<<<"router", "R1", "metric", "900">>>>,
     <<<<"distance", "5">>, <<"router", "R1", "metric2", "5">>>>}
GatherN1Runs ==
    {<<>>, <<<<"router", "R1">>>>, <<<<"dr", "R2">>>>,
     <<<<"distance", "5">>, <<"router", "R1">>, <<"dr", "R2">>>>}

\* a text: a block of R1, and blocks of R2 and of N1/24 unless they are empty
GatherDescs ==
    {<<[head |-> <<"router", "R1">>, attrs |-> a1]>>
       \o (IF a2 = <<>> THEN <<>> ELSE <<[head |-> <<"router", "R2">>, attrs |-> a2]>>)
       \o (IF a3 = <<>> THEN <<>> ELSE <<[head |-> <<"network", "N1/24">>, attrs |-> a3]>>) :
        a1 \in OneOrTwo(GatherR1Lines), a2 \in GatherR2Runs, a3 \in GatherN1Runs}

\* birdc gives a text for the first protocol and fails for the second
GatherStart ==
    /\ arg = <<>>
    /\ \E d \in GatherDescs : arg' = d
    /\ ret' = <<>>
    /\ UNCHANGED <<pbase, ptext, pres, pn>>
    /\ UNCHANGED tokvars
    /\ UNCHANGED loopvars

\* main: gather::gather(&OSPF_PROTOS[..])
GatherCall ==
    /\ arg # <<>>
    /\ ret = <<>>
    /\ ret' \in gather(<<Stdout(TextOf(arg)), ExitFailure>>)
    /\ UNCHANGED arg
    /\ UNCHANGED <<pbase, ptext, pres, pn>>
    /\ UNCHANGED tokvars
    /\ UNCHANGED loopvars

\* main: the loop body after, birdc giving the same text: gather is called
\* again; ret keeps what both calls returned
GatherAgain ==
    /\ arg # <<>>
    /\ ret # <<>>
    /\ "first" \notin DOMAIN ret
    /\ \E g \in gather(<<Stdout(TextOf(arg)), ExitFailure>>) :
          ret' = [first |-> ret, second |-> g]
    /\ UNCHANGED arg
    /\ UNCHANGED <<pbase, ptext, pres, pn>>
    /\ UNCHANGED tokvars
    /\ UNCHANGED loopvars

\* the next loop body
GatherReturn ==
    /\ ret # <<>>
    /\ arg' = <<>>
    /\ ret' = <<>>
    /\ UNCHANGED <<pbase, ptext, pres, pn>>
    /\ UNCHANGED tokvars
    /\ UNCHANGED loopvars

\* ------------------------------------- neighbors, conns: the raw weights
\* values of an External metric and of an Internal metric up to 1000
ExternalValues ==
    {0, 1, 99, 999, 1000, 1001, 32767, 32768, 64535, 64536, 64537, 65000, 65534, 65535}
InternalValues == {0, 1, 99, 100, 500, 999, 1000}
EntryOf(kind, v) == [typ |-> "router", obj |-> <<"R2">>, metric |-> [kind |-> kind, v |-> v]]

\* a router has an entry with an External and one with an Internal metric
WeightStart ==
    /\ arg = <<>>
    /\ \E x \in ExternalValues, y \in InternalValues :
          arg' = <<EntryOf("External", x), EntryOf("Internal", y)>>
    /\ ret' = <<>>
    /\ UNCHANGED <<pbase, ptext, pres, pn>>
    /\ UNCHANGED tokvars
    /\ UNCHANGED loopvars

\* neighbors(): the weights of the two entries
WeightCall ==
    /\ arg # <<>>
    /\ ret = <<>>
    /\ \E wx \in WeightOutcomes(arg[1]), wy \in WeightOutcomes(arg[2]) :
          ret' = <<wx, wy>>
    /\ UNCHANGED arg
    /\ UNCHANGED <<pbase, ptext, pres, pn>>
    /\ UNCHANGED tokvars
    /\ UNCHANGED loopvars

\* the next router
WeightReturn ==
    /\ ret # <<>>
    /\ arg' = <<>>
    /\ ret' = <<>>
    /\ UNCHANGED <<pbase, ptext, pres, pn>>
    /\ UNCHANGED tokvars
    /\ UNCHANGED loopvars

\* ------------------------------------------------- main.rs: update loop
\* Option<u64>
NoHash == <<>>
\* Some recording no hash
Some_Forgotten(h) == <<>>

Some(h) == <<h>>

SenderIds == {senders[t] : t \in DOMAIN senders}

\* what birdc can give, per protocol, in one loop body: every protocol the
\* same, or TextA for one of them and anything for the others
Polls ==
    {o \in [1 .. Len(OSPF_PROTOS) -> LoopOutcomes] :
        \/ \E i \in 1 .. Len(OSPF_PROTOS) : o[i] = Stdout(TextA)
        \/ \A i \in 1 .. Len(OSPF_PROTOS) : o[i] = o[1]}

\* gather and the hash of its payload for every poll, computed once
GatherTable ==
    {[poll |-> o,
      results |-> {[r |-> r, hash |-> IF r.kind = "Some" THEN Hash(r.dath) ELSE 0] :
                      r \in gather(o)}] : o \in Polls}
GatherOf(o) == (CHOOSE e \in GatherTable : e.poll = o).results

\* HashMismatch reporting every payload as an update
HashMismatch_Always(prev, new_hash) == TRUE

\* only report update if hash mismatches:
\* mem::replace(&mut prev_hash, Some(new_hash)) != Some(new_hash)
HashMismatch(prev, new_hash) == prev # Some(new_hash)

\* HashAfterAcquire leaving the hash as it is
HashAfterAcquire_Keep(prev) == prev

\* Ok(TokenUpdate::Acquire(t, s)) => prev_hash = None
HashAfterAcquire(prev) == NoHash

\* the loop body up to the `while`, birdc giving o: gather, the change
\* check, broadcast, ping
LoopBodyOn(o) ==
    /\ Running
    /\ lpc = "poll"
    /\ \E g \in GatherOf(o) : LET r == g.r IN
          /\ birdc' = o
          /\ result' = r
          /\ acqd' = FALSE
          /\ IF r.kind = "panic"
                THEN /\ lpc' = "dead"
                     /\ UNCHANGED <<prev_hash, timeout, dist, pinged, owed, got>>
                ELSE
                /\ lpc' = "wait"
                /\ LET new_hash == g.hash
                       changed == /\ r.kind = "Some"
                                  /\ HashMismatch(prev_hash, new_hash)
                   IN  /\ prev_hash' = IF r.kind = "Some" THEN Some(new_hash)
                                                          ELSE prev_hash
                       /\ timeout' = IF changed /\ senders = EmptyMap
                                        THEN "never" ELSE "after"
                       /\ IF changed /\ senders # EmptyMap
                             THEN \E id \in DOMAIN senders :
                                     /\ dist' = senders[id]
                                     /\ got' = got \cup {senders[id]}
                                     /\ pinged' = {}
                             ELSE /\ dist' = NoConn
                                  /\ got' = got
                                  /\ pinged' = SenderIds
                       /\ owed' = IF r.kind = "Some" /\ senders # EmptyMap
                                     THEN FALSE ELSE owed
    /\ UNCHANGED senders
    /\ UNCHANGED tokvars
    /\ UNCHANGED parsevars

\* the loop body, birdc giving anything
LoopBody == \E o \in Polls : LoopBodyOn(o)

\* birdc, dist and pinged describe the loop body that has just run
BodyDone ==
    /\ birdc' = <<>>
    /\ dist' = NoConn
    /\ pinged' = {}

\* `while sel_start.elapsed() < 100 ms`: the time is up
LoopElapsed ==
    /\ Running
    /\ lpc = "wait"
    /\ lpc' = "poll"
    /\ BodyDone
    /\ UNCHANGED <<prev_hash, senders, timeout, result, acqd, owed, got>>
    /\ UNCHANGED tokvars
    /\ UNCHANGED parsevars

\* `while sel_start.elapsed() < 100 ms`: the time is not up, enter select!
LoopSelect ==
    /\ Running
    /\ lpc = "wait"
    /\ lpc' = "select"
    /\ BodyDone
    /\ UNCHANGED <<prev_hash, senders, timeout, result, acqd, owed, got>>
    /\ UNCHANGED tokvars
    /\ UNCHANGED parsevars

\* select!: recv(r_tkinf) -> Ok(Acquire(t, s)) or Ok(Release(t))
LoopRecv ==
    /\ Running
    /\ lpc = "select"
    /\ evc # <<>>
    /\ evc' = Tail(evc)
    /\ lpc' = "wait"
    /\ LET tkinf == Head(evc)
       IN  IF tkinf.type = "Acquire"
              THEN /\ prev_hash' = HashAfterAcquire(prev_hash)
                   /\ senders' = MapInsert(senders, tkinf.t, tkinf.s)
                   /\ acqd' = TRUE
                   /\ owed' = TRUE
              ELSE /\ senders' = [t \in DOMAIN senders \ {tkinf.t} |-> senders[t]]
                   /\ UNCHANGED <<prev_hash, acqd, owed>>
    /\ UNCHANGED <<timeout, birdc, result, dist, pinged, got>>
    /\ UNCHANGED <<tks, mutex, handler, hpc, tokval, panicked>>
    /\ UNCHANGED parsevars

\* select!: recv(timeout), which only chan::after(10 s) ever delivers; by
\* then the 100 ms of the `while` are over
LoopTimeout ==
    /\ Running
    /\ lpc = "select"
    /\ timeout = "after"
    /\ lpc' = "poll"
    /\ UNCHANGED <<prev_hash, senders, timeout, birdc, result, dist, pinged, acqd, owed, got>>
    /\ UNCHANGED tokvars
    /\ UNCHANGED parsevars

\* ------------------------------------------------------- specification
Init ==
    /\ tks = AllTokens
    /\ mutex = NoConn
    /\ evc = <<>>
    /\ handler = [c \in Conns |-> "NoHandler"]
    /\ hpc = [c \in Conns |-> "idle"]
    /\ tokval = [c \in Conns |-> NoToken]
    /\ panicked = FALSE
    /\ lpc = "poll"
    /\ prev_hash = NoHash
    /\ senders = EmptyMap
    /\ timeout = "after"
    /\ birdc = <<>>
    /\ result = GatherNone
    /\ dist = NoConn
    /\ pinged = {}
    /\ acqd = FALSE
    /\ owed = FALSE
    /\ got = {}
    /\ pbase = TopologyNew
    /\ ptext = <<>>
    /\ pres = Ok(TopologyNew)
    /\ pn = 0
    /\ arg = <<>>
    /\ ret = <<>>

\* concurrent callers of the token pool: every connection runs on_open and
\* on_close step by step, interleaved with the others
Next ==
    \/ \E c \in Conns : Connect(c)
    \/ \E c \in Conns : OnOpen(c)
    \/ \E c \in Conns : AcquireLock(c)
    \/ \E c \in Conns : AcquireIter(c)
    \/ \E c \in Conns : AcquireRemove(c)
    \/ \E c \in Conns : AcquireSend(c)
    \/ \E c \in Conns : AcquireErr(c)
    \/ \E c \in Conns : OnClose(c)
    \/ \E c \in Conns : DropLock(c)
    \/ \E c \in Conns : DropInsert(c)
    \/ \E c \in Conns : DropSend(c)

Spec == Init /\ [][Next]_vars

\* the program as main wires it: the listener's thread runs the callbacks,
\* the spawned thread runs the update loop
NextLoop ==
    \/ \E c \in Viewers : Connect(c)
    \/ \E c \in Viewers : OnOpenCall(c)
    \/ \E c \in Viewers : OnCloseCall(c)
    \/ LoopBody
    \/ LoopElapsed
    \/ LoopSelect
    \/ LoopRecv
    \/ LoopTimeout

SpecLoop == Init /\ [][NextLoop]_vars

NextParse == ParseMerge \/ ParseTake \/ ParseRestart

SpecParse == Init /\ [][NextParse]_vars

\* the program while birdc keeps giving the same text for every protocol:
\* the topology does not change
SteadyPoll == [i \in 1 .. Len(OSPF_PROTOS) |-> Stdout(TextA)]
LoopBodySteady == LoopBodyOn(SteadyPoll)

NextSteady ==
    \/ \E c \in Viewers : Connect(c)
    \/ \E c \in Viewers : OnOpenCall(c)
    \/ \E c \in Viewers : OnCloseCall(c)
    \/ LoopBodySteady
    \/ LoopElapsed
    \/ LoopSelect
    \/ LoopRecv
    \/ LoopTimeout

\* a select! that is entered again and again with an event waiting
\* receives it
FairSpecSteady == Init /\ [][NextSteady]_vars /\ SF_vars(LoopRecv)

\* ------------------------------------------------------------- claims
\* a TokenGuard exists: try_acquire has returned it and drop has not yet
\* given its value back
LiveGuard(c) == handler[c] = "Running" \/ hpc[c] \in {"dlock", "insert"}

\* the value is out of the pool on behalf of c
Owns(c) == hpc[c] = "send" \/ LiveGuard(c)
OwnedTokens == {tokval[c] : c \in {d \in Conns : Owns(d)}}

\* C1: under any interleaving of try_acquire calls and guard drops, no two
\* live TokenGuards hold the same TokenValue.
C1_NoSharedToken ==
    \A c, d \in Conns :
        (c # d /\ LiveGuard(c) /\ LiveGuard(d)) => tokval[c] # tokval[d]

\* two guards are live at once, one of them on a value that an earlier,
\* dropped guard held
C1_Witness ==
    \E c, d, e \in Conns :
        /\ c # d /\ LiveGuard(c) /\ LiveGuard(d)
        /\ handler[e] = "Closed" /\ hpc[e] = "idle" /\ tokval[e] = tokval[c]

\* C5: a try_acquire is rejected exactly when every one of the
\* u16::MAX - 1 (65534) token values is out of the pool; the rejected call
\* leaves the free set alone and emits no event.
C5_RejectedIffExhausted ==
    [][\A c \in Conns :
          (hpc[c] = "iter" /\ hpc'[c] # "iter") =>
             /\ (hpc'[c] = "err") <=> (Cardinality(OwnedTokens) = U16_MAX - 1)
             /\ (hpc'[c] = "err") => (tks' = tks /\ evc' = evc)
             /\ Cardinality(TokensNew(65535)) = 65534]_vars

\* a call was rejected while a guard was live for every token value
C5_Witness ==
    \E c \in Conns :
        /\ hpc[c] = "err"
        /\ Cardinality({d \in Conns : LiveGuard(d)}) = U16_MAX - 1

\* C6: a connection that opens while the pool is exhausted is refused
\* without a panic.
C6_RefusedWithoutPanic == ~panicked

\* C7: dropping a guard that holds v puts v back into the free set and emits
\* exactly one Release(v); the free set is always the pool minus the values
\* that are out, so acquiring and dropping in sequence never exhausts it.
C7_DropReturnsToken ==
    /\ [](tks = TokensNew(U16_MAX) \ OwnedTokens)
    /\ [][\A c \in Conns :
             /\ (hpc[c] = "insert" /\ hpc'[c] # "insert") =>
                   (tokval[c] \in tks' /\ hpc'[c] = "dsend")
             /\ (hpc[c] = "dsend" /\ hpc'[c] # "dsend") =>
                   evc' = Append(evc, Release(tokval[c]))
             /\ (hpc[c] \in {"dlock", "insert"} /\ hpc'[c] # hpc[c]) =>
                   evc' = evc]_vars

\* more guards were acquired and dropped than the pool has values, the
\* last acquisition getting a value that was dropped before
C7_Witness ==
    \E c \in Conns :
        /\ handler[c] = "Running"
        /\ Cardinality({d \in Conns : handler[d] = "Closed" /\ hpc[d] = "idle"
                                           /\ tokval[d] # NoToken}) >= U16_MAX - 1
        /\ \E d \in Conns : handler[d] = "Closed" /\ tokval[d] = tokval[c]

\* c's sender is in the registry of the update loop
Registered(c) == \E t \in DOMAIN senders : senders[t] = c

\* c's connection is open and the update loop has processed its Acquire
Admitted(c) == handler[c] = "Running" /\ Registered(c)

\* a loop body runs in this step
BodyStep == lpc = "poll" /\ lpc' \in {"wait", "dead"}

C3_UnchangedPayloadOnlyPings ==
    [][(BodyStep /\ result.kind = "Some" /\ result' = result /\ ~acqd) =>
          (dist' = NoConn /\ got' = got /\ pinged' = SenderIds)]_vars

\* a body has just pinged two registered senders instead of broadcasting
\* the payload whose hash was already recorded
C3_Witness ==
    /\ lpc = "wait"
    /\ result.kind = "Some"
    /\ prev_hash = Some(Hash(result.dath))
    /\ dist = NoConn
    /\ Cardinality(pinged) >= 2
    /\ pinged = SenderIds

\* C4: after an Acquire was received, the next loop body that gets a payload
\* while a sender is registered broadcasts it.
C4_AcquireForcesDistribution ==
    [][(BodyStep /\ owed /\ result'.kind = "Some" /\ senders # EmptyMap) =>
          (dist' \in SenderIds /\ dist' \in got')]_vars

\* a body has just broadcast to one of two registered senders, another
\* sender having had a broadcast before
C4_Witness ==
    /\ lpc = "wait"
    /\ dist # NoConn
    /\ Cardinality(SenderIds) >= 2
    /\ got # {dist}
    /\ ~owed

\* the texts gather collected from birdc outcomes o, and whether one of them
\* fails to parse on top of the texts before it
Collected(o) ==
    LET ts == SelectSeq(o, LAMBDA x : x.kind = "stdout")
    IN  [i \in 1 .. Len(ts) |-> ts[i].text]
RECURSIVE SomeTextFails(_, _, _)
SomeTextFails(topo, tmp, k) ==
    /\ k <= Len(tmp)
    /\ \/ ~parse_topology(topo, tmp[k]).ok
       \/ SomeTextFails(parse_topology(topo, tmp[k]).val, tmp, k + 1)
NoPanic(o) == \A k \in 1 .. Len(o) : o[k].kind # "non_utf8"
\* for every poll, whether gather gets through the collection and one of
\* the collected texts then fails to parse; computed once
ParseFailTable ==
    {[poll |-> o,
      fails |-> NoPanic(o) /\ SomeTextFails(TopologyNew, Collected(o), 1)] : o \in Polls}
ParseFails(o) == (CHOOSE e \in ParseFailTable : e.poll = o).fails

\* C8: when a collected text fails to parse, the loop body gets no payload,
\* broadcasts nothing, leaves prev_hash as it was and goes on to the `while`.
C8_ParseFailureSkipsCycle ==
    [][(BodyStep /\ ParseFails(birdc')) =>
          /\ result' = GatherNone
          /\ dist' = NoConn /\ got' = got
          /\ prev_hash' = prev_hash
          /\ lpc' = "wait"]_vars

\* a body collected a text that parses and one that does not, with a sender
\* registered and a hash recorded
C8_Witness ==
    /\ lpc = "wait"
    /\ birdc = <<Stdout(TextA), Stdout(TextBad)>>
    /\ result = GatherNone
    /\ senders # EmptyMap
    /\ prev_hash # NoHash

\* C9: when birdc cannot be launched, exits with a failure or prints what is
\* no text for one protocol, the loop body goes on with the texts of the
\* others and the update loop keeps running.
C9_CollectionErrorsAreSkipped ==
    [][(BodyStep /\ \E k \in 1 .. Len(birdc') : birdc'[k].kind # "stdout") =>
          /\ lpc' = "wait"
          /\ result' \in gather([k \in 1 .. Len(Collected(birdc')) |->
                                   Stdout(Collected(birdc')[k])])]_vars


\* the distance a line of a generated text reports: 255 for `unreachable`,
\* n for `distance n`, -1 for any other line
Reported(attr) ==
    IF attr = <<"unreachable">> THEN 255
    ELSE IF attr[1] = "distance" THEN NumVal(attr[2])
    ELSE -1

\* the (block head, reported distance) pairs of a generated text, in order
Reports(desc) ==
    LET per(b) == [i \in 1 .. Len(b.attrs) |-> <<b.head, Reported(b.attrs[i])>>]
    IN  SelectSeq(Flatten([i \in 1 .. Len(desc) |-> per(desc[i])]),
                  LAMBDA r : r[2] >= 0)

\* the distance a Topology stores for the router or network of a block head
StoredIn(topo, head) ==
    LET id == router2id(<<head[2]>>)
    IN  IF BB_AREA \notin DOMAIN topo.areas THEN 255
        ELSE IF head[1] = "router"
           THEN IF id \in DOMAIN topo.areas[BB_AREA].routers
                   THEN topo.areas[BB_AREA].routers[id].distance ELSE 255
           ELSE IF id \in DOMAIN topo.areas[BB_AREA].networks
                   THEN topo.areas[BB_AREA].networks[id].distance ELSE 255

RECURSIVE FirstConflict(_, _, _)
\* walks the reports of a text with the distances stored so far: the first
\* report of a distance d2 # 255 for a block whose stored distance is
\* d1 # 255, d1 # d2, as <<d1, d2>>; <<>> when the walk ends, or meets a
\* 255 reported against a stored d1 # 255, before that
FirstConflict(stored, reports, k) ==
    IF k > Len(reports) THEN <<>>
    ELSE LET head == reports[k][1]
             d2 == reports[k][2]
             d1 == stored[head]
         IN  IF d1 # 255 /\ d2 # d1
                THEN IF d2 # 255 THEN <<d1, d2>> ELSE <<>>
                ELSE FirstConflict([stored EXCEPT ![head] = d2], reports, k + 1)

ExpectedConflict(topo, desc) ==
    FirstConflict([h \in BlockHeads |-> StoredIn(topo, h)], Reports(desc), 1)

\* C10: when, within one Topology, a router or network whose stored distance
\* is d1 # 255 gets a `distance d2` line with d2 # d1 and d2 # 255,
\* parse_topology fails with DistanceMismatch(d1, d2).
C10_DistanceMismatchNamesBoth ==
    (ptext # <<>> /\ ExpectedConflict(pbase, ptext) # <<>>) =>
        pres = Err(DistanceMismatch(ExpectedConflict(pbase, ptext)[1],
                                    ExpectedConflict(pbase, ptext)[2]))

\* a text reporting distance 9 for a router was merged into a Topology that
\* stored 5 for it, and the call failed naming 5 and 9
C10_Witness ==
    /\ pn = 2
    /\ StoredIn(pbase, <<"router", "R1">>) = 5
    /\ ptext = <<[head |-> <<"router", "R1">>, attrs |-> <<<<"distance", "9">>>>]>>
    /\ pres = Err(DistanceMismatch(5, 9))

(***************************************************************************)
(* C11, C12: the sentinel distance 255 in the merge                        *)
(***************************************************************************)
IsMismatch(r) == ~r.ok /\ r.err.kind = "DistanceMismatch"

\* C11: the distance 255 never causes a conflict, as the stored or as the
\* newly reported distance: a distance mismatch is raised only for two
\* different distances neither of which is 255
C11_SentinelNeverConflicts ==
    (ptext # <<>> /\ IsMismatch(pres))
        => pres.err.a # 255 /\ pres.err.b # 255 /\ pres.err.a # pres.err.b

RouterR1(attrs) == <<[head |-> <<"router", "R1">>, attrs |-> attrs]>>
FreshR1 == StoredIn(pbase, <<"router", "R1">>) = 255

\* C12 as stated: `unreachable` then `distance 5` for one router fails with
\* the conflict 255 vs 5, `unreachable` then `unreachable` succeeds
C12_UnreachableThenDistanceFails ==
    /\ (FreshR1 /\ ptext = RouterR1(<<<<"unreachable">>, <<"distance", "5">>>>))
          => pres = Err(DistanceMismatch(255, 5))
    /\ (FreshR1 /\ ptext = RouterR1(<<<<"unreachable">>, <<"unreachable">>>>))
          => pres.ok

\* C12 as amended: `unreachable` then `distance 5` for one router succeeds
\* and stores 5, `unreachable` then `unreachable` succeeds and stores 255
C12_UnreachableThenDistanceSucceeds ==
    /\ (FreshR1 /\ ptext = RouterR1(<<<<"unreachable">>, <<"distance", "5">>>>))
          => pres.ok /\ StoredIn(pres.val, <<"router", "R1">>) = 5
    /\ (FreshR1 /\ ptext = RouterR1(<<<<"unreachable">>, <<"unreachable">>>>))
          => pres.ok /\ StoredIn(pres.val, <<"router", "R1">>) = 255

C12_Witness ==
    /\ FreshR1
    /\ ptext = RouterR1(<<<<"unreachable">>, <<"distance", "5">>>>)
    /\ pres.ok
    /\ StoredIn(pres.val, <<"router", "R1">>) = 5

(***************************************************************************)
(* C13: merging texts in either order, and merging a text twice            *)
(***************************************************************************)
NextMerge == MergeStart \/ MergeRun \/ MergeDone
SpecMerge == Init /\ [][NextMerge]_vars

Merged == arg # <<>> /\ ret # <<>>
BothValid == ret.once1.ok /\ ret.once2.ok

\* the routers and networks both Topologies know carry identical data
SameShared(a, b) ==
    LET ra == a.areas[BB_AREA].routers
        rb == b.areas[BB_AREA].routers
        na == a.areas[BB_AREA].networks
        nb == b.areas[BB_AREA].networks
    IN  /\ \A id \in DOMAIN ra \cap DOMAIN rb : ra[id] = rb[id]
        /\ \A id \in DOMAIN na \cap DOMAIN nb : na[id] = nb[id]

\* C13: two valid texts that share no router or network, or
\* identical data for those they share, merge to the same Topology in either
\* order, and a valid text merged twice gives the Topology of merging it once
C13_MergeCommutesAndIdempotent ==
    Merged =>
        /\ (BothValid /\ SameShared(ret.once1.val, ret.once2.val))
              => ret.fwd.ok /\ ret.rev.ok /\ ret.fwd.val = ret.rev.val
        /\ ret.once1.ok => ret.twice = ret.once1

(***************************************************************************)
(* C14, C15: the forest parse_nested_blocks builds                         *)
(***************************************************************************)
NextBlocks == BlockLine \/ BlockFinish \/ BlockReturn
SpecBlocks == Init /\ [][NextBlocks]_vars

RECURSIVE Preorder(_)
\* the heads of a forest, parent before children, children in order
Preorder(forest) ==
    Flatten([i \in 1 .. Len(forest) |->
                <<forest[i].head>> \o Preorder(forest[i].subs)])

\* the heads of the lines that are not blank, in input order
NonBlank(lines) ==
    LET ls == SelectSeq(lines, LAMBDA l : l.head # <<>>)
    IN  [i \in 1 .. Len(ls) |-> ls[i].head]

\* C14: parse_nested_blocks fails no assertion, and the pre-order walk of
\* the forest it returns is the sequence of the non-blank lines, each
\* without its leading whitespace, in input order
C14_ForestKeepsEveryLine ==
    /\ ~BlockState.failed
    /\ BlockState.done =>
          /\ Preorder(ret.out) = NonBlank(arg)
          /\ ret.out = parse_nested_blocks([i \in 1 .. Len(arg) |-> LineText(arg[i])])

C14_Witness ==
    /\ BlockState.done
    /\ Len(arg) = 4
    /\ arg[2].head = <<>>
    /\ arg[3].indent = <<" ", " ">>
    /\ arg[4].indent = <<"\t">>
    /\ Len(ret.out) = 2
    /\ Preorder(ret.out) = <<<<"R1">>, <<"R3">>, <<"area">>>>

Root == <<"root">>

RECURSIVE ParentPairs(_, _)
\* the <<head, head of the parent>> pairs of a forest below the block p
ParentPairs(forest, p) ==
    UNION {{<<forest[i].head, p>>} \cup ParentPairs(forest[i].subs, forest[i].head) :
              i \in 1 .. Len(forest)}

ParentOf(forest, h) == (CHOOSE pr \in ParentPairs(forest, Root) : pr[1] = h)[2]

\* the heads of the children of p, in order
ChildrenOf(forest, p) ==
    SelectSeq(Preorder(forest), LAMBDA h : ParentOf(forest, h) = p)

RECURSIVE OpenChain(_, _)
\* a block and the blocks around it, innermost first: the open blocks once
\* the line with head h has been read
OpenChain(forest, h) ==
    IF h = Root THEN <<>> ELSE <<h>> \o OpenChain(forest, ParentOf(forest, h))

\* the lines read so far that are not blank, and the forest they make
ReadLines == SelectSeq(arg, LAMBDA l : l.head # <<>>)
ReadForest == ParserFinish(BlockState.P)
IndentOf(h) == (CHOOSE l \in {ReadLines[i] : i \in 1 .. Len(ReadLines)} : l.head = h).indent
ProperPrefix(a, b) == StartsWith(b, a) /\ a # b

\* the block the claim attaches a line with indentation `indent` to, after
\* the line with head h1: the innermost open block whose indentation is a
\* proper prefix of `indent`
AttachPoint(forest, h1, indent) ==
    LET open == SelectSeq(OpenChain(forest, h1),
                          LAMBDA h : ProperPrefix(IndentOf(h), indent))
    IN  IF open = <<>> THEN Root ELSE open[1]

\* C15: of two consecutive non-blank lines L1, L2, L2 is a child of L1 when
\* its indentation strictly extends that of L1, the next sibling of L1 when
\* the indentations are equal, and otherwise a child of the innermost open
\* block whose indentation is a proper prefix of its own, or a root
C15_IndentationDecidesParent ==
    (/\ ~BlockState.done
     /\ Len(ReadLines) >= 2
     /\ arg[Len(arg)].head # <<>>)
    => LET n == Len(ReadLines)
           L1 == ReadLines[n - 1]
           L2 == ReadLines[n]
           parent == ParentOf(ReadForest, L2.head)
           sibs == ChildrenOf(ReadForest, parent)
       IN  /\ ProperPrefix(L1.indent, L2.indent) => parent = L1.head
           /\ L1.indent = L2.indent =>
                 /\ parent = ParentOf(ReadForest, L1.head)
                 /\ Len(sibs) >= 2
                 /\ sibs[Len(sibs) - 1] = L1.head
                 /\ sibs[Len(sibs)] = L2.head
           /\ ~StartsWith(L2.indent, L1.indent) =>
                 /\ parent = AttachPoint(ReadForest, L1.head, L2.indent)
                 /\ \A i \in 1 .. Len(BlockState.P.stack) - 1 :
                       ProperPrefix(BlockState.P.stack[i].indent, L2.indent)

\* three lines indented by none, by two spaces and by one: the third is
\* attached to the first once the second is closed
C15_Witness ==
    /\ ~BlockState.done
    /\ Len(arg) = 3
    /\ arg[1] = [indent |-> <<>>, head |-> <<"R1">>]
    /\ arg[2] = [indent |-> <<" ", " ">>, head |-> <<"R2">>]
    /\ arg[3] = [indent |-> <<" ">>, head |-> <<"R3">>]
    /\ ChildrenOf(ReadForest, <<"R1">>) = <<<<"R2">>, <<"R3">>>>

(***************************************************************************)
(* C16, C17: the edges of the payload                                      *)
(***************************************************************************)
NextGather == GatherStart \/ GatherCall \/ GatherReturn
SpecGather == Init /\ [][NextGather]_vars

Gathered == arg # <<>> /\ ret # <<>> /\ ret.kind = "Some"
PayloadEdges == {ret.dath.edges[i] : i \in 1 .. Len(ret.dath.edges)}
IdOf(name) == router2id(<<name>>)

\* the <<head of the block, line>> pairs of the text
LinesOf ==
    UNION {{<<arg[k].head, arg[k].attrs[i]>> : i \in 1 .. Len(arg[k].attrs)} :
              k \in 1 .. Len(arg)}

\* <<A, B, m>>: router A has a `router` entry naming B, of normalized metric
\* m (the value of `metric`, 1000 more than the value of `metric2`)
RouterReports ==
    {<<p[1][2], p[2][2],
       IF p[2][3] = "metric" THEN NumVal(p[2][4]) ELSE 1000 + NumVal(p[2][4])>> :
        p \in {q \in LinesOf : q[1][1] = "router" /\ q[2][1] = "router"}}

\* <<N, X>>: network N has the member or the designated router X
NetworkReports ==
    {<<p[1][2], p[2][2]>> :
        p \in {q \in LinesOf : q[1][1] = "network" /\ q[2][1] \in {"router", "dr"}}}

LengthOf(m) == Min2((m \div 100) + 1, 1000)
EdgesBetween(a, b) ==
    {e \in PayloadEdges : e.from = Min2(IdOf(a), IdOf(b)) /\ e.to = Max2(IdOf(a), IdOf(b))}
NumberOf(e) == Cardinality({i \in 1 .. Len(ret.dath.edges) : ret.dath.edges[i] = e})

\* C16: every `router` entry of a backbone router A naming B with normalized
\* metric m gives the payload the edge from min(id(A), id(B)) to
\* max(id(A), id(B)) of length min(m / 100 + 1, 1000), once; when A and B
\* report each other and every report gives the same length, the edge list
\* has exactly one edge for the pair
C16_RouterEdgesAreCanonical ==
    Gathered =>
        /\ \A r \in RouterReports :
              NumberOf([from |-> Min2(IdOf(r[1]), IdOf(r[2])),
                        to |-> Max2(IdOf(r[1]), IdOf(r[2])),
                        length |-> LengthOf(r[3])]) = 1
        /\ \A r, q \in RouterReports :
              (/\ r[1] = q[2]
               /\ r[2] = q[1]
               /\ \A p \in RouterReports :
                     {p[1], p[2]} = {r[1], r[2]} => LengthOf(p[3]) = LengthOf(r[3]))
              => /\ Cardinality(EdgesBetween(r[1], r[2])) = 1
                 /\ Cardinality({i \in 1 .. Len(ret.dath.edges) :
                                    ret.dath.edges[i] \in EdgesBetween(r[1], r[2])}) = 1

\* R1 names R2 and R2 names R1, both with metric 10: one edge, of length 1
C16_Witness ==
    /\ Gathered
    /\ <<"R1", "R2", 10>> \in RouterReports
    /\ <<"R2", "R1", 10>> \in RouterReports
    /\ Cardinality(EdgesBetween("R1", "R2")) = 1
    /\ [from |-> 17, to |-> 41, length |-> 1] \in PayloadEdges

\* C17: every edge of the payload between a backbone network and a member
\* router or the designated router of that network has length 0
C17_NetworkEdgesHaveLengthZero ==
    Gathered =>
        \A r \in NetworkReports :
            /\ EdgesBetween(r[1], r[2]) # {}
            /\ \A e \in EdgesBetween(r[1], r[2]) : e.length = 0

(***************************************************************************)
(* C18: External metrics against Internal metrics                          *)
(***************************************************************************)
NextWeight == WeightStart \/ WeightCall \/ WeightReturn
SpecWeight == Init /\ [][NextWeight]_vars

\* C18: for every 16-bit x and every y <= 1000 the raw weight computed for
\* External(x) is strictly larger than the raw weight computed for
\* Internal(y)
C18_ExternalOutranksInternal ==
    (arg # <<>> /\ ret # <<>>) =>
        /\ ret[1].ok
        /\ ret[2].ok
        /\ ret[1].val > ret[2].val

(***************************************************************************)
(* C19: the registry of the update loop against the live guards            *)
(***************************************************************************)
\* callers of try_acquire and drop that run concurrently, step by step, next
\* to the update loop; with no more connections than values try_acquire
\* never fails
NextRace ==
    \/ \E c \in Viewers : Connect(c)
    \/ \E c \in Viewers : OnOpen(c)
    \/ \E c \in Viewers : AcquireLock(c)
    \/ \E c \in Viewers : AcquireIter(c)
    \/ \E c \in Viewers : AcquireRemove(c)
    \/ \E c \in Viewers : AcquireSend(c)
    \/ \E c \in Viewers : OnClose(c)
    \/ \E c \in Viewers : DropLock(c)
    \/ \E c \in Viewers : DropInsert(c)
    \/ \E c \in Viewers : DropSend(c)
    \/ LoopBodySteady
    \/ LoopElapsed
    \/ LoopSelect
    \/ LoopRecv
    \/ LoopTimeout

SpecRace == Init /\ [][NextRace]_vars

\* no call of try_acquire or drop is under way, and the update loop has
\* received every event sent
AllConsumed == evc = <<>> /\ \A c \in Viewers : hpc[c] = "idle"

\* C19: once the update loop has consumed every emitted event, the keys of
\* `senders` are the values held by live guards, each mapped to the sender
\* of its holder
C19_RegistryMatchesLiveGuards ==
    AllConsumed =>
        /\ DOMAIN senders = {tokval[c] : c \in {d \in Viewers : LiveGuard(d)}}
        /\ \A c \in Viewers : LiveGuard(c) => senders[tokval[c]] = c

(***************************************************************************)
(* C20: the recorded hash when nobody is registered                        *)
(***************************************************************************)
\* the hash of what gather returned to the loop body of this step, and
\* whether it is a payload that the recorded hash does not match
NewHash == (CHOOSE g \in GatherOf(birdc') : g.r = result').hash
ChangedPayload == result'.kind = "Some" /\ prev_hash # <<NewHash>>

\* C20 as stated: a loop body that finds the payload changed while no
\* sender is registered leaves the recorded hash as it was, and the hash
\* changes only in a body that broadcasts
C20_HashKeptWithoutViewers ==
    [][BodyStep =>
          /\ (ChangedPayload /\ senders = EmptyMap) => prev_hash' = prev_hash
          /\ prev_hash' # prev_hash => dist' # NoConn]_vars

\* C20 as amended: a loop body that finds the payload changed while no
\* sender is registered records the hash of that payload all the same,
\* broadcasts nothing and turns the timeout off; every body that gets a
\* payload records its hash, whether it broadcasts or not
C20_HashAdvancesWithEveryPayload ==
    [][BodyStep =>
          /\ result'.kind = "Some" => prev_hash' = <<NewHash>>
          /\ (ChangedPayload /\ senders = EmptyMap) =>
                /\ dist' = NoConn
                /\ got' = got
                /\ timeout' = "never"]_vars

\* a body has recorded the hash of a payload with nobody registered and
\* nobody ever broadcast to
C20_Witness ==
    /\ lpc = "wait"
    /\ result.kind = "Some"
    /\ senders = EmptyMap
    /\ got = {}
    /\ dist = NoConn
    /\ timeout = "never"
    /\ prev_hash = <<Hash(result.dath)>>

(***************************************************************************)
(* C21: what a successful try_acquire takes, returns and emits             *)
(***************************************************************************)
\* the smallest value that no caller has out of the pool
SmallestFree == CHOOSE v \in tks : \A w \in tks : v <= w

\* C21: a successful try_acquire takes the smallest TokenValue that is free
\* when it looks at the pool under the lock, returns a guard bound to that
\* value, and emits exactly one Acquire event, which carries that value and
\* the caller's payload.
C21_AcquireTakesSmallestFree ==
    [][\A c \in Conns :
          /\ (hpc[c] = "iter" /\ hpc'[c] = "remove") =>
                (tokval'[c] = SmallestFree /\ evc' = evc)
          /\ (hpc[c] = "remove" /\ hpc'[c] # "remove") =>
                /\ tks # {} /\ tokval[c] = SmallestFree
                /\ tks' = tks \ {tokval[c]}
                /\ tks = TokensNew(U16_MAX) \ OwnedTokens
                /\ evc' = evc
                /\ hpc'[c] = "send"
          /\ (hpc[c] = "send" /\ hpc'[c] # "send") =>
                /\ evc' = Append(evc, Acquire(tokval[c], c))
                /\ handler'[c] = "Running"
                /\ tokval'[c] = tokval[c]
                /\ tokval[c] \notin tks'
          /\ (hpc[c] = "lock" /\ hpc'[c] # "lock") => evc' = evc]_vars

\* a guard was returned for 0 while another guard held 1: the call took the
\* value an earlier guard had given back, the smallest free one
C21_Witness ==
    \E c, d, e \in Conns :
        /\ handler[c] = "Running" /\ hpc[c] = "idle" /\ tokval[c] = 0
        /\ handler[d] = "Running" /\ hpc[d] = "idle" /\ tokval[d] = 1
        /\ handler[e] = "Closed" /\ hpc[e] = "idle" /\ tokval[e] = 0
        /\ Len(evc) = 4 /\ evc[4] = Acquire(0, c)

(***************************************************************************)
(* C22: the ids of the areas against `interned`                            *)
(***************************************************************************)
\* the ids an AreaData refers to: its router keys, its network keys, and
\* each network's designated router and member routers
AreaIds(areadat) ==
    DOMAIN areadat.routers \cup DOMAIN areadat.networks
      \cup {areadat.networks[n].dr : n \in DOMAIN areadat.networks}
      \cup UNION {areadat.networks[n].routers : n \in DOMAIN areadat.networks}
ReferencedIds(topo) == UNION {AreaIds(topo.areas[a]) : a \in DOMAIN topo.areas}

\* C22: after every successful parse_topology, over any sequence of merges,
\* every id referenced in any AreaData (router keys, network keys, each
\* network's designated-router id and member-router ids) is a key of
\* `interned`.
C22_ReferencedIdsAreInterned ==
    (ptext # <<>> /\ pres.ok) =>
        ReferencedIds(pres.val) \subseteq DOMAIN pres.val.interned

(***************************************************************************)
(* C23: gather called twice on the same texts                              *)
(***************************************************************************)
NextTwice == GatherStart \/ GatherCall \/ GatherAgain \/ GatherReturn
SpecTwice == Init /\ [][NextTwice]_vars

\* two consecutive loop bodies have collected the same texts
GatheredTwice == arg # <<>> /\ "first" \in DOMAIN ret

\* C23: gather is deterministic: for the same collected texts it returns
\* the byte-identical encoded payload (same node order, same edge order), so
\* the content hash of the following cycle is the same.
C23_GatherIsDeterministic ==
    GatheredTwice =>
        /\ ret.second = ret.first
        /\ ret.first.kind = "Some" =>
              /\ Serialize(ret.second.dath) = Serialize(ret.first.dath)
              /\ Hash(ret.second.dath) = Hash(ret.first.dath)

(***************************************************************************)
(* C24: the Handler's state against the token it holds                     *)
(***************************************************************************)
\* the callbacks of the listener's thread, called in any state of a Handler
NextHandler ==
    \/ \E c \in Conns : Connect(c)
    \/ \E c \in Conns : OnOpenCall(c)
    \/ \E c \in Conns : OnCloseCall(c)
    \/ \E c \in Conns : OnOpenOther(c)
    \/ \E c \in Conns : OnCloseOther(c)

SpecHandler == Init /\ [][NextHandler]_vars

\* the Handler of c owns a TokenGuard: its value is out of the pool
Holds(c) == tokval[c] # NoToken /\ tokval[c] \notin tks
\* the values the Running handlers hold
RunningTokens == {tokval[c] : c \in {d \in Conns : handler[d] = "Running"}}

\* a callback of c's Handler ran in this step: on_close leaves Closed
\* behind, on_open PreRunning or Running
Called(c) ==
    handler[c] # "NoHandler" /\ (handler'[c] # handler[c] \/ hpc'[c] # hpc[c])
OnOpenRan(c) == Called(c) /\ handler'[c] \in {"PreRunning", "Running"}
OnCloseRan(c) == Called(c) /\ handler'[c] = "Closed"

\* on_open acquired one token and moved to Running
AcquiredOne(c) ==
    /\ handler'[c] = "Running"
    /\ tokval'[c] \in tks
    /\ tks' = tks \ {tokval'[c]}
    /\ evc' = Append(evc, Acquire(tokval'[c], c))
    /\ ~panicked'

\* a Handler holds a token exactly while it is Running, and the pool lacks
\* exactly the values of the Running handlers
HoldsWhileRunning ==
    /\ \A c \in Conns : Holds(c) <=> handler[c] = "Running"
    /\ \A c, d \in Conns : (c # d /\ Holds(c) /\ Holds(d)) => tokval[c] # tokval[d]
    /\ tks = TokensNew(U16_MAX) \ RunningTokens

\* on_close from Running releases the token held and moves to Closed; the
\* calls in the other states panic
CloseAndPanics(c) ==
    /\ (OnCloseRan(c) /\ handler[c] = "Running") =>
          /\ tokval[c] \notin tks
          /\ tks' = tks \cup {tokval[c]}
          /\ evc' = Append(evc, Release(tokval[c]))
          /\ ~panicked'
    /\ (OnOpenRan(c) /\ handler[c] # "PreOpen") => panicked'
    /\ (OnCloseRan(c) /\ handler[c] # "Running") => panicked'

\* C24 as stated: a Handler holds a token exactly while it is Running:
\* on_open from PreOpen acquires one token and moves to Running, on_close
\* from Running releases that token and moves to Closed, a handler in
\* PreOpen, PreRunning or Closed holds none; on_open in any other state than
\* PreOpen and on_close in any other state than Running panic.
C24_OnOpenAlwaysAcquires ==
    /\ []HoldsWhileRunning
    /\ [][\A c \in Conns :
             /\ (OnOpenRan(c) /\ handler[c] = "PreOpen") => AcquiredOne(c)
             /\ CloseAndPanics(c)]_vars

\* C24 as amended: the same, but on_open from PreOpen either acquires one
\* token and moves to Running, or acquires none and leaves the handler in
\* PreRunning with the pool as it was.
C24_HoldsTokenWhileRunning ==
    /\ []HoldsWhileRunning
    /\ [][\A c \in Conns :
             /\ (OnOpenRan(c) /\ handler[c] = "PreOpen") =>
                   \/ AcquiredOne(c)
                   \/ /\ handler'[c] = "PreRunning"
                      /\ tks' = tks /\ evc' = evc /\ tokval'[c] = tokval[c]
             /\ CloseAndPanics(c)]_vars

\* one handler was closed and gave its token back, one is Running, and one
\* is in PreRunning after an on_open that acquired nothing and did not panic
C24_Witness ==
    \E c, d, e \in Conns :
        /\ handler[c] = "Closed" /\ handler[d] = "Running"
        /\ handler[e] = "PreRunning"
        /\ ~panicked
        /\ Holds(d) /\ tokval[d] = 0 /\ ~Holds(e)
        /\ evc = <<Acquire(0, c), Release(0), Acquire(0, d)>>

(***************************************************************************)
(* C25: the endpoints of the edges against the node list                   *)
(***************************************************************************)
\* the ids of the nodes of the payload
PayloadNodeIds == {ret.dath.nodes[i].id : i \in 1 .. Len(ret.dath.nodes)}

\* C25: in every payload produced by gather, both endpoints of every edge
\* are ids of nodes in the node list of the same payload, also for an edge
\* to a neighbour named only in a `router` entry and for an edge to the
\* designated router of a network without a `dr` line.
C25_EdgesJoinNodes ==
    Gathered =>
        \A e \in PayloadEdges : e.from \in PayloadNodeIds /\ e.to \in PayloadNodeIds

====
